---------------------------- MODULE Spec2Model ----------------------------
(***************************************************************************)
(* Model of the LLM response normalisation and validation pipeline of the  *)
(* AI travel planner (src/app/utils/gemini.py, class GeminiAPI).           *)
(*                                                                         *)
(* Texts are TLA+ strings.  The text functions work on the sequence of     *)
(* one-character strings of a text (Chars) and give a string back (Str).   *)
(***************************************************************************)
EXTENDS Integers, Sequences, FiniteSets, TLC

VARIABLES
    use_mock,   \* GeminiAPI.use_mock
    context,    \* GeminiAPI.context: generated_suggestions, final_itinerary
    call,       \* the last call made on the GeminiAPI object and its outcome
    response_text,  \* _parse_json_response: its argument response_text
    parse_keys,     \* _parse_json_response: its argument expected_keys
    json_str,       \* _parse_json_response: its local json_str
    json_data,      \* _parse_json_response: its local data, then its result
    parse_pc,       \* _parse_json_response: where the call stands
    parse_calls,    \* the calls of json.loads and of the repairer so far
    arg,        \* the argument handed to the function under study
    ret,        \* what the function returned
    op,         \* "init" before the call, the function's name after it
    init,       \* GeminiAPI.__init__: where the construction stands, what it did
    weather,    \* WeatherAPI: its session and the client sessions it opened
    forecast,   \* the last get_forecast call on the WeatherAPI object
    exits,      \* the __aexit__ calls on it that are suspended in close()
    session,    \* st.session_state of main.py
    run         \* the last run of the script main.py: the user's action, the view

apiVars == <<use_mock, context, call>>
parseVars == <<response_text, parse_keys, json_str, json_data, parse_pc, parse_calls>>
fnVars == <<arg, ret, op>>
appVars == <<init, weather, forecast, exits, session, run>>
vars == <<use_mock, context, call, response_text, parse_keys, json_str, json_data,
          parse_pc, parse_calls, arg, ret, op, init, weather, forecast, exits,
          session, run>>

---------------------------------------------------------------------------
(* Bounds of the model                                                     *)

MaxTimeLen == 4       \* longest enumerated time token
MaxRepairLen == 4     \* longest enumerated text handed to the repairer
MaxDays == 2          \* most days in an enumerated itinerary
MaxActs == 2          \* most activities in an enumerated day
MaxTextLen == 4       \* longest enumerated response text

---------------------------------------------------------------------------
(* Strings as character sequences                                          *)

Chars(s) == [i \in 1..Len(s) |-> SubSeq(s, i, i)]

RECURSIVE Str(_)
Str(cs) ==
    IF cs = <<>> THEN ""
    ELSE IF Len(cs) = 1 THEN cs[1]
    ELSE LET half == Len(cs) \div 2
         IN  Str(SubSeq(cs, 1, half)) \o Str(SubSeq(cs, half + 1, Len(cs)))

\* every sequence over the set alphabet of length at most n
RECURSIVE SeqsUpTo(_, _)
SeqsUpTo(alphabet, n) ==
    IF n = 0 THEN {<<>>}
    ELSE LET shorter == SeqsUpTo(alphabet, n - 1)
         IN  shorter \cup {Append(s, c) : s \in shorter, c \in alphabet}

StringsUpTo(alphabet, n) == {Str(cs) : cs \in SeqsUpTo(alphabet, n)}

\* the characters str.strip() removes, among those the model uses
Whitespace == {" ", "\n", "\t", "\r"}

Digits == {"0", "1", "2", "3", "4", "5", "6", "7", "8", "9"}

DigitVal(c) ==
    CASE c = "0" -> 0 [] c = "1" -> 1 [] c = "2" -> 2 [] c = "3" -> 3
      [] c = "4" -> 4 [] c = "5" -> 5 [] c = "6" -> 6 [] c = "7" -> 7
      [] c = "8" -> 8 [] c = "9" -> 9

DigitChar(n) ==
    CASE n = 0 -> "0" [] n = 1 -> "1" [] n = 2 -> "2" [] n = 3 -> "3"
      [] n = 4 -> "4" [] n = 5 -> "5" [] n = 6 -> "6" [] n = 7 -> "7"
      [] n = 8 -> "8" [] n = 9 -> "9"

SeqToSet(seq) == {seq[i] : i \in 1..Len(seq)}

AllIn(cs, set) == \A i \in 1..Len(cs) : cs[i] \in set

\* str.strip(chars): drop the characters of set from both ends
RECURSIVE LStripChars(_, _)
LStripChars(cs, set) ==
    IF cs # <<>> /\ Head(cs) \in set THEN LStripChars(Tail(cs), set) ELSE cs

RECURSIVE RStripChars(_, _)
RStripChars(cs, set) ==
    IF cs # <<>> /\ cs[Len(cs)] \in set
    THEN RStripChars(SubSeq(cs, 1, Len(cs) - 1), set)
    ELSE cs

StripChars(cs, set) == RStripChars(LStripChars(cs, set), set)

Strip(cs) == StripChars(cs, Whitespace)

\* str.count(c)
Count(cs, c) == Cardinality({i \in 1..Len(cs) : cs[i] = c})

\* c * n
RECURSIVE Repeat(_, _)
Repeat(c, n) == IF n <= 0 THEN <<>> ELSE <<c>> \o Repeat(c, n - 1)

---------------------------------------------------------------------------
(* GeminiAPI._validate_time_format                                         *)

\* re.match(r'^\d{1,2}$', s): one or two digits; '$' also matches before a
\* final newline
MatchesHourOnly(cs) ==
    \/ Len(cs) \in {1, 2} /\ AllIn(cs, Digits)
    \/ /\ Len(cs) \in {2, 3}
       /\ cs[Len(cs)] = "\n"
       /\ AllIn(SubSeq(cs, 1, Len(cs) - 1), Digits)

\* datetime.strptime(s, '%H:%M'): the format compiles to
\* (2[0-3]|[0-1]\d|\d):([0-5]\d|\d), matched at the start of s, and the
\* match has to end at the end of s.  hlen and mlen are the lengths the
\* first match gives the two groups (0: the group does not match).
StrptimeHourLen(cs) ==
    IF /\ Len(cs) >= 3
       /\ cs[1] \in {"0", "1", "2"}
       /\ cs[2] \in Digits
       /\ (cs[1] = "2" => cs[2] \in {"0", "1", "2", "3"})
       /\ cs[3] = ":"
    THEN 2
    ELSE IF Len(cs) >= 2 /\ cs[1] \in Digits /\ cs[2] = ":" THEN 1
    ELSE 0

StrptimeMinuteLen(cs, from) ==
    IF /\ Len(cs) >= from + 1
       /\ cs[from] \in {"0", "1", "2", "3", "4", "5"}
       /\ cs[from + 1] \in Digits
    THEN 2
    ELSE IF Len(cs) >= from /\ cs[from] \in Digits THEN 1
    ELSE 0

StrptimeOk(cs) ==
    /\ StrptimeHourLen(cs) > 0
    /\ StrptimeMinuteLen(cs, StrptimeHourLen(cs) + 2) > 0
    /\ StrptimeHourLen(cs) + 1 + StrptimeMinuteLen(cs, StrptimeHourLen(cs) + 2) = Len(cs)

\* int() of a run of digits
RECURSIVE IntOf(_)
IntOf(cs) ==
    IF cs = <<>> THEN 0
    ELSE 10 * IntOf(SubSeq(cs, 1, Len(cs) - 1)) + DigitVal(cs[Len(cs)])

\* mutant: the number is written without padding
Pad2_Unpadded(n) ==
    IF n < 10 THEN <<DigitChar(n)>> ELSE <<DigitChar(n \div 10), DigitChar(n % 10)>>

\* f"{n:02d}" for 0 <= n <= 99
Pad2(n) == <<DigitChar(n \div 10), DigitChar(n % 10)>>

\* line 290: time_str.strip().strip('"\'')
Unquoted(cs) == StripChars(Strip(cs), {"\"", "'"})

\* lines 292-293
WithMinutes(cs) == IF MatchesHourOnly(cs) THEN cs \o <<":", "0", "0">> ELSE cs

\* lines 295-299
WithColon(cs) ==
    IF \E i \in 1..Len(cs) : cs[i] = ":" THEN cs
    ELSE IF Len(cs) = 3 THEN <<cs[1], ":">> \o SubSeq(cs, 2, 3)
    ELSE IF Len(cs) = 4 THEN SubSeq(cs, 1, 2) \o <<":">> \o SubSeq(cs, 3, 4)
    ELSE cs

\* the local variable time_str after the rewrites of lines 290-299
TimeRewritten(time_str) == WithColon(WithMinutes(Unquoted(Chars(time_str))))

\* TRUE when the function takes its except branch (and warns)
TimeFormatWarns(time_str) == ~StrptimeOk(TimeRewritten(time_str))

\* lines 301-306 on the rewritten text: the hours and the minutes formatted,
\* or the rewritten text itself from the except branch
TimeFormatted(cs) ==
    IF StrptimeOk(cs)
    THEN Str(Pad2(IntOf(SubSeq(cs, 1, StrptimeHourLen(cs)))) \o <<":">>
             \o Pad2(IntOf(SubSeq(cs, StrptimeHourLen(cs) + 2, Len(cs)))))
    ELSE Str(cs)

ValidateTimeFormat(time_str) == TimeFormatted(TimeRewritten(time_str))

---------------------------------------------------------------------------
(* GeminiAPI._repair_truncated_json                                        *)

\* mutant: the missing brackets are not appended
RepairTruncatedJsonChars_BracesOnly(cs) ==
    LET open_braces == Count(cs, "{")
        close_braces == Count(cs, "}")
    IN  Strip(IF open_braces > close_braces
              THEN cs \o Repeat("}", open_braces - close_braces) ELSE cs)

RepairTruncatedJsonChars(cs) ==
    LET open_braces == Count(cs, "{")
        close_braces == Count(cs, "}")
        open_brackets == Count(cs, "[")
        close_brackets == Count(cs, "]")
        t1 == IF open_braces > close_braces
              THEN cs \o Repeat("}", open_braces - close_braces) ELSE cs
        t2 == IF open_brackets > close_brackets
              THEN t1 \o Repeat("]", open_brackets - close_brackets) ELSE t1
    IN  Strip(t2)

RepairTruncatedJson(text) == Str(RepairTruncatedJsonChars(Chars(text)))

---------------------------------------------------------------------------
(* GeminiAPI._clean_json_text and GeminiAPI._fix_over_escaped_quotes.      *)
(* Each re.sub and str.replace is a scan from the left: the text up to the  *)
(* next match is copied, the replacement is written and the scan goes on   *)
(* after the match.                                                        *)

Quote == "\""
Backslash == "\\"

\* A TLA+ string cannot hold the backquote of a Markdown code fence: the
\* model writes it as a circumflex, and no text of the model has a
\* circumflex of its own.
Backquote == "^"
Fence == <<Backquote, Backquote, Backquote>>

Letters == SeqToSet(Chars("ABCDEFGHIJKLMNOPQRSTUVWXYZabcdefghijklmnopqrstuvwxyz"))

\* the characters encode('ascii', 'ignore') keeps, among those the model
\* uses; every other character stands for a non-ASCII code point
Ascii ==
    SeqToSet(Chars(" !#$%&'()*+,-./0123456789:;<=>?@[]^_{|}~"))
    \cup Letters \cup {Quote, Backslash, "\n", "\t", "\r"}

Min(set) == CHOOSE n \in set : \A m \in set : n <= m

\* the first of the positions stops, none if there is not any
First(stops, none) == IF stops = {} THEN none ELSE Min(stops)

\* the length of the run of characters of set that starts at position i
RunLen(cs, i, set) ==
    IF i > Len(cs) THEN 0
    ELSE First({j \in i..Len(cs) : cs[j] \notin set}, Len(cs) + 1) - i

\* the length of the run of characters outside set that starts at i
RunLenOutside(cs, i, set) ==
    IF i > Len(cs) THEN 0
    ELSE First({j \in i..Len(cs) : cs[j] \in set}, Len(cs) + 1) - i

\* the length of the run of characters other than c that starts at i
RunLenNot(cs, i, c) == RunLenOutside(cs, i, {c})

StartsWith(cs, i, word) ==
    /\ i + Len(word) - 1 <= Len(cs)
    /\ SubSeq(cs, i, i + Len(word) - 1) = word

At(cs, i, set) == i <= Len(cs) /\ cs[i] \in set

\* str.find(c) and str.rfind(c) as 1-based positions, 0 when c is absent
Find(cs, c) ==
    IF \E i \in 1..Len(cs) : cs[i] = c
    THEN CHOOSE i \in 1..Len(cs) : cs[i] = c /\ \A j \in 1..(i - 1) : cs[j] # c
    ELSE 0

RFind(cs, c) ==
    IF \E i \in 1..Len(cs) : cs[i] = c
    THEN CHOOSE i \in 1..Len(cs) : cs[i] = c /\ \A j \in (i + 1)..Len(cs) : cs[j] # c
    ELSE 0

\* The scan of re.sub and of str.replace.  lens[k] is the length of the
\* match of the pattern at position k (0: no match there) and reps[k] what
\* the match is replaced by.  From position i on, the text up to the next
\* match (at j) is copied, the replacement is written and the scan goes on
\* after the match.
RECURSIVE Substitute(_, _, _, _)

SubstituteAt(cs, i, j, lens, reps) ==
    IF j > Len(cs) THEN SubSeq(cs, i, Len(cs))
    ELSE SubSeq(cs, i, j - 1) \o reps[j] \o Substitute(cs, j + lens[j], lens, reps)

Substitute(cs, i, lens, reps) ==
    SubstituteAt(cs, i, First({k \in i..Len(cs) : lens[k] > 0}, Len(cs) + 1),
                 lens, reps)

\* str.replace(word, replacement)
ReplaceAll(cs, word, replacement) ==
    Substitute(cs, 1,
               [k \in 1..Len(cs) |-> IF StartsWith(cs, k, word) THEN Len(word) ELSE 0],
               [k \in 1..Len(cs) |-> replacement])

\* (fence)(?:json)?\n?, (fence) being three backquotes
FenceMarkerLen(cs, i) ==
    IF ~StartsWith(cs, i, Fence) THEN 0
    ELSE LET j == IF StartsWith(cs, i + 3, Chars("json")) THEN i + 7 ELSE i + 3
         IN  (IF At(cs, j, {"\n"}) THEN j + 1 ELSE j) - i

\* re.sub(r'(fence)(?:json)?\n?', '', text)
RemoveFenceMarkers(cs) ==
    Substitute(cs, 1, [k \in 1..Len(cs) |-> FenceMarkerLen(cs, k)],
               [k \in 1..Len(cs) |-> <<>>])

\* "{2,}([^"]+)"{2,}
QuoteRunsLen(cs, i) ==
    LET opening == RunLen(cs, i, {Quote})
        inner == RunLenNot(cs, i + opening, Quote)
        closing == RunLen(cs, i + opening + inner, {Quote})
    IN  IF opening >= 2 /\ inner >= 1 /\ closing >= 2
        THEN opening + inner + closing ELSE 0

\* "\1" for the match at position i
QuoteRunsCollapsed(cs, i) ==
    LET opening == RunLen(cs, i, {Quote})
        inner == RunLenNot(cs, i + opening, Quote)
    IN  <<Quote>> \o SubSeq(cs, i + opening, i + opening + inner - 1) \o <<Quote>>

\* re.sub(r'"{2,}([^"]+)"{2,}', r'"\1"', text)
CollapseQuoteRuns(cs) ==
    Substitute(cs, 1, [k \in 1..Len(cs) |-> QuoteRunsLen(cs, k)],
               [k \in 1..Len(cs) |->
                   IF QuoteRunsLen(cs, k) > 0 THEN QuoteRunsCollapsed(cs, k) ELSE <<>>])

\* \\+"
EscapedQuoteLen(cs, i) ==
    LET slashes == RunLen(cs, i, {Backslash})
    IN  IF slashes >= 1 /\ At(cs, i + slashes, {Quote}) THEN slashes + 1 ELSE 0

\* re.sub(r'\\+"', '"', text)
UnescapeQuotes(cs) ==
    Substitute(cs, 1, [k \in 1..Len(cs) |-> EscapedQuoteLen(cs, k)],
               [k \in 1..Len(cs) |-> <<Quote>>])

\* "([^"]+)"
QuotedLen(cs, i) ==
    LET inner == RunLenNot(cs, i + 1, Quote)
    IN  IF At(cs, i, {Quote}) /\ inner >= 1 /\ At(cs, i + 1 + inner, {Quote})
        THEN inner + 2 ELSE 0

\* '"' + m.group(1).replace(' ', '') + '"' for the match at position i
QuotedUnspaced(cs, i) ==
    <<Quote>>
    \o SelectSeq(SubSeq(cs, i + 1, i + QuotedLen(cs, i) - 2), LAMBDA c : c # " ")
    \o <<Quote>>

\* mutant: the quoted strings keep their spaces
RemoveSpacesInQuotes_KeepsSpaces(cs) == cs

\* re.sub(r'"([^"]+)"', lambda m: '"' + m.group(1).replace(' ', '') + '"', text)
RemoveSpacesInQuotes(cs) ==
    Substitute(cs, 1, [k \in 1..Len(cs) |-> QuotedLen(cs, k)],
               [k \in 1..Len(cs) |->
                   IF QuotedLen(cs, k) > 0 THEN QuotedUnspaced(cs, k) ELSE <<>>])

FixOverEscapedQuotes(cs) ==
    RemoveSpacesInQuotes(UnescapeQuotes(CollapseQuoteRuns(cs)))

KeyChars == Letters \cup Digits \cup {"_"}

\* ([{,])\s*([a-zA-Z_][a-zA-Z0-9_]*)\s*: at position i: where group 2 starts
BareKeyStart(cs, i) == i + 1 + RunLen(cs, i + 1, Whitespace)

\* the length of group 2 when it starts at position key
BareKeyLen(cs, key) == 1 + RunLen(cs, key + 1, KeyChars)

\* where the colon is when group 2 ends before position after
BareKeyColon(cs, after) == after + RunLen(cs, after, Whitespace)

BareKeyMatchLen(cs, i) ==
    LET key == BareKeyStart(cs, i)
        colon == BareKeyColon(cs, key + BareKeyLen(cs, key))
    IN  IF /\ At(cs, i, {"{", ","})
           /\ At(cs, key, Letters \cup {"_"})
           /\ At(cs, colon, {":"})
        THEN colon + 1 - i ELSE 0

\* \1"\2": for the match at position i
BareKeyQuoted(cs, i) ==
    LET key == BareKeyStart(cs, i)
    IN  <<cs[i], Quote>> \o SubSeq(cs, key, key + BareKeyLen(cs, key) - 1)
        \o <<Quote, ":">>

\* re.sub(r'([{,])\s*([a-zA-Z_][a-zA-Z0-9_]*)\s*:', r'\1"\2":', text)
QuoteBareKeys(cs) ==
    Substitute(cs, 1, [k \in 1..Len(cs) |-> BareKeyMatchLen(cs, k)],
               [k \in 1..Len(cs) |->
                   IF BareKeyMatchLen(cs, k) > 0 THEN BareKeyQuoted(cs, k) ELSE <<>>])

\* "(\d{1,2})h"
HourTokenLen(cs, i) ==
    LET digits == RunLen(cs, i + 1, Digits)
    IN  IF /\ At(cs, i, {Quote})
           /\ digits \in {1, 2}
           /\ StartsWith(cs, i + 1 + digits, <<"h", Quote>>)
        THEN digits + 3 ELSE 0

\* "\1:00" for the match at position i
HourTokenRewritten(cs, i) ==
    <<Quote>> \o SubSeq(cs, i + 1, i + HourTokenLen(cs, i) - 3)
    \o <<":", "0", "0", Quote>>

\* re.sub(r'"(\d{1,2})h"', r'"\1:00"', text)
RewriteHourTokens(cs) ==
    Substitute(cs, 1, [k \in 1..Len(cs) |-> HourTokenLen(cs, k)],
               [k \in 1..Len(cs) |->
                   IF HourTokenLen(cs, k) > 0 THEN HourTokenRewritten(cs, k) ELSE <<>>])

\* "(\d{1,2})(\d{2})"
DigitTokenLen(cs, i) ==
    LET digits == RunLen(cs, i + 1, Digits)
    IN  IF /\ At(cs, i, {Quote})
           /\ digits \in {3, 4}
           /\ At(cs, i + 1 + digits, {Quote})
        THEN digits + 2 ELSE 0

\* "\1:\2" for the match at position i
DigitTokenRewritten(cs, i) ==
    <<Quote>> \o SubSeq(cs, i + 1, i + DigitTokenLen(cs, i) - 4) \o <<":">>
    \o SubSeq(cs, i + DigitTokenLen(cs, i) - 3, i + DigitTokenLen(cs, i) - 2)
    \o <<Quote>>

\* re.sub(r'"(\d{1,2})(\d{2})"', r'"\1:\2"', text)
RewriteDigitTokens(cs) ==
    Substitute(cs, 1, [k \in 1..Len(cs) |-> DigitTokenLen(cs, k)],
               [k \in 1..Len(cs) |->
                   IF DigitTokenLen(cs, k) > 0 THEN DigitTokenRewritten(cs, k) ELSE <<>>])

\* lines 311-313: the text without its code fence markers
Unfenced(cs) == ReplaceAll(RemoveFenceMarkers(Strip(cs)), Fence, <<>>)

\* lines 315-317: the text has a '{' and a '}'
HasJsonSpan(cs) == Find(cs, "{") # 0 /\ RFind(cs, "}") # 0

\* line 318: text[start:end + 1]
JsonSpan(cs) == SubSeq(cs, Find(cs, "{"), RFind(cs, "}"))

\* lines 322-328
Rewritten(cs) ==
    ReplaceAll(
        ReplaceAll(
            RewriteDigitTokens(
                RewriteHourTokens(
                    RemoveSpacesInQuotes(QuoteBareKeys(FixOverEscapedQuotes(cs))))),
            <<"'">>, <<Quote>>),
        <<".", ".", ".">>, <<>>)

\* line 320: the sanitizer raises "No valid JSON found" (and, catching it,
\* returns the text as it was at that point)
CleanFindsNoJson(text) == ~HasJsonSpan(Unfenced(Chars(text)))

\* line 330: not text.strip().endswith('}')
NotClosed(cs) == Strip(cs) = <<>> \/ Strip(cs)[Len(Strip(cs))] # "}"

\* the text the sanitizer hands to the repairer when it does
CleanRepairArgument(text) == Str(Rewritten(JsonSpan(Unfenced(Chars(text)))))

\* line 330: the sanitizer hands its text to the repairer
CleanCallsRepair(text) ==
    /\ ~CleanFindsNoJson(text)
    /\ NotClosed(Rewritten(JsonSpan(Unfenced(Chars(text)))))

\* lines 330-335 on the rewritten text
Closed(cs) ==
    Str(Strip(SelectSeq(IF NotClosed(cs) THEN RepairTruncatedJsonChars(cs) ELSE cs,
                        LAMBDA c : c \in Ascii)))

\* lines 315-335 on the text without its fence markers
Extracted(cs) ==
    IF ~HasJsonSpan(cs) THEN Str(cs) ELSE Closed(Rewritten(JsonSpan(cs)))

CleanJsonText(text) == Extracted(Unfenced(Chars(text)))

---------------------------------------------------------------------------
(* JSON values as json.loads builds them.  A value carries its Python type *)
(* in t; the other field depends on the type, so that values of different  *)
(* types are different records.                                            *)

JStr(s) == [t |-> "str", s |-> s]
JInt(n) == [t |-> "int", n |-> n]
JBool(b) == [t |-> "bool", b |-> b]
JNull == [t |-> "NoneType"]
JList(items) == [t |-> "list", items |-> items]
JDict(m) == [t |-> "dict", m |-> m]

\* sub in s, for two strings
IsSubstring(sub, s) ==
    \E i \in 0..(Len(s) - Len(sub)) : SubSeq(s, i + 1, i + Len(sub)) = sub

\* the types for which  key in data  is defined when key is a string
SupportsIn(data) == data.t \in {"dict", "list", "str"}

\* key in data
HasKey(data, key) ==
    CASE data.t = "dict" -> key \in DOMAIN data.m
      [] data.t = "list" -> \E i \in 1..Len(data.items) : data.items[i] = JStr(key)
      [] data.t = "str" -> IsSubstring(key, data.s)

\* The value of a float is kept as the text json.loads read it from, and
\* Python compares a float with an int by value: float(text) is the double
\* nearest to the decimal number the text writes (ties to the even
\* mantissa), so a text equals the int n when the number it writes lies
\* within half a step of the doubles around n.  The number is kept as its
\* significant digits and the place of the decimal point.

\* the first place of cs that holds one of chars, Len(cs) + 1 if none does
PlaceOf(cs, chars) ==
    IF \E i \in 1..Len(cs) : cs[i] \in chars
    THEN CHOOSE i \in 1..Len(cs) :
             cs[i] \in chars /\ \A j \in 1..(i - 1) : cs[j] \notin chars
    ELSE Len(cs) + 1

\* how many zeros cs starts with and ends with
LeadingZeros(cs) == PlaceOf(cs, Digits \ {"0"}) - 1

TrailingZeros(cs) ==
    IF \A i \in 1..Len(cs) : cs[i] = "0" THEN Len(cs)
    ELSE Len(cs) - (CHOOSE i \in 1..Len(cs) :
                        cs[i] # "0" /\ \A j \in (i + 1)..Len(cs) : cs[j] = "0")

Signless(cs) == IF cs # <<>> /\ cs[1] \in {"-", "+"} THEN Tail(cs) ELSE cs

\* the value of the exponent digits; ten digits and more are beyond every
\* double and are kept as a thousand million
ExponentDigits(cs) ==
    IF Len(cs) - LeadingZeros(cs) > 9 THEN 1000000000
    ELSE IntOf(SubSeq(cs, LeadingZeros(cs) + 1, Len(cs)))

\* the exponent of the number text cs, 0 when it has none
ExponentOf(cs) ==
    IF PlaceOf(cs, {"e", "E"}) > Len(cs) THEN 0
    ELSE IF cs[PlaceOf(cs, {"e", "E"}) + 1] = "-"
    THEN 0 - ExponentDigits(SubSeq(cs, PlaceOf(cs, {"e", "E"}) + 2, Len(cs)))
    ELSE ExponentDigits(Signless(SubSeq(cs, PlaceOf(cs, {"e", "E"}) + 1, Len(cs))))

\* the mantissa of cs, its digits before the point and its digits in all
Mantissa(cs) == SubSeq(cs, 1, PlaceOf(cs, {"e", "E"}) - 1)

WholeDigits(cs) == SubSeq(Mantissa(cs), 1, PlaceOf(Mantissa(cs), {"."}) - 1)

AllDigits(cs) ==
    WholeDigits(cs) \o SubSeq(Mantissa(cs), PlaceOf(Mantissa(cs), {"."}) + 1,
                              Len(Mantissa(cs)))

\* the number 0.d1d2... * 10^point that the text cs writes, d1 and the last
\* digit not 0; no digits for zero
DecimalOf(cs) ==
    [negative |-> cs # <<>> /\ cs[1] = "-",
     digits |-> SubSeq(AllDigits(Signless(cs)),
                       LeadingZeros(AllDigits(Signless(cs))) + 1,
                       Len(AllDigits(Signless(cs)))
                           - TrailingZeros(AllDigits(Signless(cs)))),
     point |-> Len(WholeDigits(Signless(cs)))
                   - LeadingZeros(AllDigits(Signless(cs)))
                   + ExponentOf(Signless(cs))]

\* the digits of the natural number n, none for 0
RECURSIVE DigitsOf(_)
DigitsOf(n) == IF n = 0 THEN <<>> ELSE Append(DigitsOf(n \div 10), DigitChar(n % 10))

\* the i-th digit of the number dec counted from its first, and the i-th
\* after its decimal point
DigitAt(dec, i) ==
    IF i >= 1 /\ i <= Len(dec.digits) THEN DigitVal(dec.digits[i]) ELSE 0

FractionDigit(dec, i) == DigitAt(dec, dec.point + i)

\* the integer part of the number dec, which is not zero, is n
IntegerPartIs(dec, n) ==
    /\ (IF dec.point > 0 THEN dec.point ELSE 0) = Len(DigitsOf(n))
    /\ \A i \in 1..Len(DigitsOf(n)) : DigitAt(dec, i) = DigitVal(DigitsOf(n)[i])

\* the fraction of dec is at most, at least, the fraction 0.g1g2... of
\* the digits g
FractionAtMost(dec, g) ==
    \/ /\ \A i \in 1..Len(g) : FractionDigit(dec, i) = g[i]
       /\ Len(dec.digits) - dec.point <= Len(g)
    \/ \E i \in 1..Len(g) :
           /\ FractionDigit(dec, i) < g[i]
           /\ \A j \in 1..(i - 1) : FractionDigit(dec, j) = g[j]

FractionAtLeast(dec, g) ==
    \/ \A i \in 1..Len(g) : FractionDigit(dec, i) = g[i]
    \/ \E i \in 1..Len(g) :
           /\ FractionDigit(dec, i) > g[i]
           /\ \A j \in 1..(i - 1) : FractionDigit(dec, j) = g[j]

FractionDigits(text) == [i \in 1..Len(Chars(text)) |-> DigitVal(Chars(text)[i])]

\* 2^-54, half the step of the doubles below 1, and 2^-1075, half the
\* least double above 0, as the digits after the decimal point
HalfStepBelowOne ==
    FractionDigits("000000000000000055511151231257827021181583404541015625")

HalfLeastDouble ==
    FractionDigits("0000000000000000000000000000000000000000000000000000000000000000000000000000000000000000000000000000000000000000000000000000000000000000000000000000000000000000000000000000000000000000000000000000000000000000000000000000000000000000000000000000000000000000000000000000000000000000000000000000000000000000000000000000000000024703282292062327208828439643411068618252990130716238221279284125033775363510437593264991818081799618989828234772285886546332835517796989819938739800539093906315035659515570226392290858392449105184435931802849936536152500319370457678249219365623669863658480757001585769269903706311928279558551332927834338409351978015531246597263579574622766465272827220056374006485499977096599470454020828166226237857393450736339007967761930577506740176324673600968951340535537458516661134223766678604162159680461914467291840300530057530849048765391711386591646239524912623653881879636239373280423891018672348497668235089863388587925628302755995657524455507255189313690836254779186948667994968324049705821028513185451396213837722826145437693412532098591327667236328125")

\* twice the fraction g, which is below a half
TwiceFraction(g) ==
    [i \in 1..Len(g) |->
        (2 * g[i] + (IF i < Len(g) /\ g[i + 1] >= 5 THEN 1 ELSE 0)) % 10]

RECURSIVE TimesPowerOfTwo(_, _)
TimesPowerOfTwo(g, k) ==
    IF k = 0 THEN g ELSE TimesPowerOfTwo(TwiceFraction(g), k - 1)

\* 1 - g for a fraction g whose last digit is not 0
OneMinus(g) ==
    [i \in 1..Len(g) |-> IF i = Len(g) THEN 10 - g[i] ELSE 9 - g[i]]

\* the binary exponent of n >= 1, and 2 to a power
RECURSIVE BinaryExponent(_)
BinaryExponent(n) == IF n < 2 THEN 0 ELSE 1 + BinaryExponent(n \div 2)

RECURSIVE PowerOfTwo(_)
PowerOfTwo(k) == IF k = 0 THEN 1 ELSE 2 * PowerOfTwo(k - 1)

\* half the step from the double n to the next double and to the one
\* before it, n a natural number below 2^31
HalfStepAbove(n) ==
    IF n = 0 THEN HalfLeastDouble
    ELSE TimesPowerOfTwo(HalfStepBelowOne, BinaryExponent(n) + 1)

HalfStepBelow(n) ==
    IF n = PowerOfTwo(BinaryExponent(n))
    THEN TimesPowerOfTwo(HalfStepBelowOne, BinaryExponent(n))
    ELSE TimesPowerOfTwo(HalfStepBelowOne, BinaryExponent(n) + 1)

\* the double nearest to the number dec, which is not zero and is taken
\* without its sign, is the natural number n
RoundsTo(dec, n) ==
    \/ IntegerPartIs(dec, n) /\ FractionAtMost(dec, HalfStepAbove(n))
    \/ /\ n >= 1
       /\ IntegerPartIs(dec, n - 1)
       /\ FractionAtLeast(dec, OneMinus(HalfStepBelow(n)))

\* float(lexeme) == n
FloatEqualsInt(lexeme, n) ==
    IF lexeme \in {"NaN", "Infinity", "-Infinity"} THEN FALSE
    ELSE IF DecimalOf(Chars(lexeme)).digits = <<>> THEN n = 0
    ELSE IF DecimalOf(Chars(lexeme)).negative
    THEN n <= 0 /\ RoundsTo(DecimalOf(Chars(lexeme)), 0 - n)
    ELSE n >= 0 /\ RoundsTo(DecimalOf(Chars(lexeme)), n)

\* value == n, for a Python int n
EqualsInt(value, n) ==
    \/ value.t = "int" /\ value.n = n
    \/ value.t = "bool" /\ n = (IF value.b THEN 1 ELSE 0)
    \/ value.t = "float" /\ FloatEqualsInt(value.lexeme, n)

UpperCase == Chars("ABCDEFGHIJKLMNOPQRSTUVWXYZ")
LowerCase == Chars("abcdefghijklmnopqrstuvwxyz")

LowerChar(c) ==
    IF \E i \in 1..26 : UpperCase[i] = c
    THEN LowerCase[CHOOSE i \in 1..26 : UpperCase[i] = c]
    ELSE c

\* str.lower()
Lower(s) == Str([i \in 1..Len(s) |-> LowerChar(SubSeq(s, i, i))])

---------------------------------------------------------------------------
(* json.loads.  A parse gives ok, the position after the value and the     *)
(* value.  A float is kept as its lexeme.  The texts of the model use the  *)
(* escapes \" \\ \/ \n \r \t and \u00XX of a printable ASCII character.    *)

JFloat(lexeme) == [t |-> "float", lexeme |-> lexeme]

ParseFail == [ok |-> FALSE, pos |-> 0, val |-> JNull]

Parsed(pos, val) == [ok |-> TRUE, pos |-> pos, val |-> val]

SkipWhitespace(cs, i) == i + RunLen(cs, i, {" ", "\t", "\n", "\r"})

HexDigits == Chars("0123456789abcdef")
HexUpper == Chars("0123456789ABCDEF")

IsHex(c) == \E k \in 1..16 : HexDigits[k] = c \/ HexUpper[k] = c

HexVal(c) == (CHOOSE k \in 1..16 : HexDigits[k] = c \/ HexUpper[k] = c) - 1

\* chr(n) for 32 <= n <= 126 (the backquote, 96, is written Backquote)
PrintableAscii ==
    Chars(" !") \o <<Quote>> \o Chars("#$%&'()*+,-./0123456789:;<=>?@")
    \o Chars("ABCDEFGHIJKLMNOPQRSTUVWXYZ[") \o <<Backslash>> \o Chars("]^_")
    \o <<Backquote>> \o Chars("abcdefghijklmnopqrstuvwxyz{|}~")

SimpleEscapes == {Quote, Backslash, "/", "n", "r", "t"}

Unescaped(c) ==
    CASE c = "n" -> "\n" [] c = "r" -> "\r" [] c = "t" -> "\t" [] OTHER -> c

\* the string whose opening quote is before position i; acc is the part
\* decoded so far.  The characters up to the next quote, backslash or
\* control character are taken as they are.
RECURSIVE ScanString(_, _, _)
ScanString(cs, i, acc) ==
    LET j == i + RunLenOutside(cs, i, {Quote, Backslash, "\n", "\r", "\t"})
        acc2 == acc \o Str(SubSeq(cs, i, j - 1))
    IN  IF j > Len(cs) THEN ParseFail
        ELSE IF cs[j] = Quote THEN Parsed(j + 1, JStr(acc2))
        ELSE IF cs[j] # Backslash THEN ParseFail
        ELSE IF At(cs, j + 1, SimpleEscapes)
        THEN ScanString(cs, j + 2, acc2 \o Unescaped(cs[j + 1]))
        ELSE IF /\ At(cs, j + 1, {"u"})
                /\ j + 5 <= Len(cs)
                /\ \A k \in 2..5 : IsHex(cs[j + k])
        THEN LET code == 4096 * HexVal(cs[j + 2]) + 256 * HexVal(cs[j + 3])
                         + 16 * HexVal(cs[j + 4]) + HexVal(cs[j + 5])
             IN  ScanString(cs, j + 6, acc2 \o PrintableAscii[code - 31])
        ELSE ParseFail

\* the number at position i: -?(0|[1-9]\d*)(\.\d+)?([eE][-+]?\d+)?
\* where the digits of the integer part start
NumberIntStart(cs, i) == IF At(cs, i, {"-"}) THEN i + 1 ELSE i

\* the position after (0|[1-9]\d*) at position j (j: nothing matches)
NumberIntEnd(cs, j) == IF At(cs, j, {"0"}) THEN j + 1 ELSE j + RunLen(cs, j, Digits)

\* the position after (\.\d+)? at position j
NumberFracEnd(cs, j) ==
    IF At(cs, j, {"."}) /\ RunLen(cs, j + 1, Digits) >= 1
    THEN j + 1 + RunLen(cs, j + 1, Digits) ELSE j

\* the position after ([eE][-+]?\d+)? at position j
NumberExpEnd(cs, j) ==
    LET digits == IF At(cs, j + 1, {"-", "+"}) THEN j + 2 ELSE j + 1
    IN  IF At(cs, j, {"e", "E"}) /\ RunLen(cs, digits, Digits) >= 1
        THEN digits + RunLen(cs, digits, Digits) ELSE j

\* the number read at position i: its integer part ends before int_end and
\* the number before end
NumberScanned(cs, i, int_start, int_end, end) ==
    IF int_end = int_start THEN ParseFail
    ELSE IF end = int_end
    THEN Parsed(end, JInt(IF int_start > i
                          THEN 0 - IntOf(SubSeq(cs, int_start, int_end - 1))
                          ELSE IntOf(SubSeq(cs, int_start, int_end - 1))))
    ELSE Parsed(end, JFloat(Str(SubSeq(cs, i, end - 1))))

ScanNumber(cs, i) ==
    NumberScanned(cs, i, NumberIntStart(cs, i),
                  NumberIntEnd(cs, NumberIntStart(cs, i)),
                  NumberExpEnd(cs, NumberFracEnd(cs,
                      NumberIntEnd(cs, NumberIntStart(cs, i)))))

RECURSIVE ScanValue(_, _), ScanMembers(_, _, _), ScanElements(_, _, _)

\* the value at position i
ScanValue(cs, i) ==
    IF i > Len(cs) THEN ParseFail
    ELSE IF cs[i] = Quote THEN ScanString(cs, i + 1, "")
    ELSE IF cs[i] = "{"
    THEN IF At(cs, SkipWhitespace(cs, i + 1), {"}"})
         THEN Parsed(SkipWhitespace(cs, i + 1) + 1, JDict(<<>>))
         ELSE ScanMembers(cs, SkipWhitespace(cs, i + 1), <<>>)
    ELSE IF cs[i] = "["
    THEN IF At(cs, SkipWhitespace(cs, i + 1), {"]"})
         THEN Parsed(SkipWhitespace(cs, i + 1) + 1, JList(<<>>))
         ELSE ScanElements(cs, SkipWhitespace(cs, i + 1), <<>>)
    ELSE IF StartsWith(cs, i, Chars("null")) THEN Parsed(i + 4, JNull)
    ELSE IF StartsWith(cs, i, Chars("true")) THEN Parsed(i + 4, JBool(TRUE))
    ELSE IF StartsWith(cs, i, Chars("false")) THEN Parsed(i + 5, JBool(FALSE))
    ELSE IF StartsWith(cs, i, Chars("NaN")) THEN Parsed(i + 3, JFloat("NaN"))
    ELSE IF StartsWith(cs, i, Chars("Infinity"))
    THEN Parsed(i + 8, JFloat("Infinity"))
    ELSE IF StartsWith(cs, i, Chars("-Infinity"))
    THEN Parsed(i + 9, JFloat("-Infinity"))
    ELSE ScanNumber(cs, i)

\* after a member: next is the position of what follows its value, m2 the
\* members read so far
MembersNext(cs, next, m2) ==
    IF At(cs, next, {"}"}) THEN Parsed(next + 1, JDict(m2))
    ELSE IF At(cs, next, {","})
    THEN ScanMembers(cs, SkipWhitespace(cs, next + 1), m2)
    ELSE ParseFail

\* the member named name once its value is read; a repeated key keeps its
\* last value
MemberAfterValue(cs, m, name, value) ==
    IF ~value.ok THEN ParseFail
    ELSE MembersNext(cs, SkipWhitespace(cs, value.pos),
                     [k \in DOMAIN m \cup {name} |->
                         IF k = name THEN value.val ELSE m[k]])

\* the member once its key is read
MemberAfterKey(cs, m, key) ==
    IF ~key.ok \/ ~At(cs, SkipWhitespace(cs, key.pos), {":"}) THEN ParseFail
    ELSE MemberAfterValue(cs, m, key.val.s,
             ScanValue(cs, SkipWhitespace(cs, SkipWhitespace(cs, key.pos) + 1)))

\* the members of an object from the key at position i on; m holds the
\* members read so far
ScanMembers(cs, i, m) ==
    IF ~At(cs, i, {Quote}) THEN ParseFail
    ELSE MemberAfterKey(cs, m, ScanString(cs, i + 1, ""))

\* after an element: next is the position of what follows it
ElementsNext(cs, next, items) ==
    IF At(cs, next, {"]"}) THEN Parsed(next + 1, JList(items))
    ELSE IF At(cs, next, {","})
    THEN ScanElements(cs, SkipWhitespace(cs, next + 1), items)
    ELSE ParseFail

\* the element once its value is read
ElementAfterValue(cs, items, value) ==
    IF ~value.ok THEN ParseFail
    ELSE ElementsNext(cs, SkipWhitespace(cs, value.pos), Append(items, value.val))

\* the elements of an array from the value at position i on
ScanElements(cs, i, items) == ElementAfterValue(cs, items, ScanValue(cs, i))

\* json.loads(text): the value, or JInvalid for a JSONDecodeError
JInvalid == [t |-> "invalid"]

\* the document read: nothing but whitespace may follow the value
Document(cs, value) ==
    IF value.ok /\ SkipWhitespace(cs, value.pos) = Len(cs) + 1
    THEN value.val ELSE JInvalid

JsonLoads(text) ==
    Document(Chars(text), ScanValue(Chars(text), SkipWhitespace(Chars(text), 1)))

---------------------------------------------------------------------------
(* GeminiAPI._validate_json_structure                                      *)

NoError == [error |-> "none", reason |-> "", missing |-> <<>>]

Raise(error, reason) == [error |-> error, reason |-> reason, missing |-> <<>>]

\* mutant: only the first key that is missing is reported
MissingKeys_FirstOnly(data, expected_keys) ==
    SubSeq(SelectSeq(expected_keys, LAMBDA key : ~HasKey(data, key)), 1, 1)

\* line 283
MissingKeys(data, expected_keys) ==
    SelectSeq(expected_keys, LAMBDA key : ~HasKey(data, key))

ValidateJsonStructure(data, expected_keys) ==
    IF ~SupportsIn(data) THEN Raise("TypeError", "not iterable")
    ELSE IF MissingKeys(data, expected_keys) # <<>>
    THEN [error |-> "ValueError", reason |-> "Missing required keys",
          missing |-> MissingKeys(data, expected_keys)]
    ELSE NoError

---------------------------------------------------------------------------
(* GeminiAPI._validate_itinerary.  The validator rewrites activity times   *)
(* in place, so besides the exception (error "none": it returned) each     *)
(* operator gives the structure as the call leaves it.                     *)

required_keys == <<"daily_plans", "total_budget", "general_tips", "emergency_contacts">>
required_day_keys == <<"day", "date", "activities", "daily_budget">>
required_activity_keys == <<"time", "duration", "description", "location", "cost", "type">>
\* mutant: meal is no activity type
valid_types_WithoutMeal == {"activity", "transport"}

valid_types == {"activity", "meal", "transport"}

\* self._validate_time_format(value): a value that is not a string has no
\* strip(), the except branch gives it back
TimeValueValidated(value) ==
    IF value.t = "str" THEN JStr(ValidateTimeFormat(value.s)) ELSE value

\* mutant: the type compared without lower()
ActivityTypeAccepted_CaseSensitive(type) == type \in valid_types

\* the activity type passes lines 272-275
ActivityTypeAccepted(type) == Lower(type) \in valid_types

RECURSIVE ValidateActivities(_, _)

\* lines 271-275 for the i-th activity, its time already rewritten
ActivityTypeChecked(acts, i) ==
    IF acts[i].m["type"].t # "str"
    THEN [status |-> Raise("AttributeError", "lower"), acts |-> acts]
    ELSE IF ~ActivityTypeAccepted(acts[i].m["type"].s)
    THEN [status |-> Raise("ValueError", "Invalid activity type"), acts |-> acts]
    ELSE ValidateActivities(acts, i + 1)

\* lines 266-269 for the i-th activity; keys is the outcome of its key check
ActivityChecked(acts, i, keys) ==
    IF keys.error # "none" THEN [status |-> keys, acts |-> acts]
    ELSE IF acts[i].t # "dict"
    THEN [status |-> Raise("TypeError", "indices must be integers"), acts |-> acts]
    ELSE ActivityTypeChecked(
             [acts EXCEPT ![i] = JDict([acts[i].m EXCEPT
                                          !["time"] = TimeValueValidated(@)])], i)

\* lines 265-275, from the i-th activity of the list on
ValidateActivities(acts, i) ==
    IF i > Len(acts) THEN [status |-> NoError, acts |-> acts]
    ELSE ActivityChecked(acts, i,
                         ValidateJsonStructure(acts[i], required_activity_keys))

\* mutant: the position counted from 0, enumerate() without its start
DayNumberMatches_ZeroBased(day, day_idx) == EqualsInt(day.m["day"], day_idx - 1)

\* day['day'] != day_idx is false
DayNumberMatches(day, day_idx) == EqualsInt(day.m["day"], day_idx)

RECURSIVE ValidateDays(_, _)

\* the day at position day_idx after the loop of lines 265-275; checked is
\* the outcome of that loop
DayActivitiesChecked(days, day_idx, checked) ==
    IF checked.status.error # "none"
    THEN [status |-> checked.status,
          days |-> [days EXCEPT ![day_idx] =
                      JDict([days[day_idx].m EXCEPT
                               !["activities"] = JList(checked.acts)])]]
    ELSE ValidateDays([days EXCEPT ![day_idx] =
                         JDict([days[day_idx].m EXCEPT
                                  !["activities"] = JList(checked.acts)])],
                      day_idx + 1)

\* lines 257-275 for the day at position day_idx; keys is the outcome of
\* its key check
DayChecked(days, day_idx, keys) ==
    IF keys.error # "none" THEN [status |-> keys, days |-> days]
    ELSE IF days[day_idx].t # "dict"
    THEN [status |-> Raise("TypeError", "indices must be integers"), days |-> days]
    ELSE IF ~DayNumberMatches(days[day_idx], day_idx)
    THEN [status |-> Raise("ValueError", "Day numbers must be sequential"),
          days |-> days]
    ELSE IF \/ days[day_idx].m["activities"].t # "list"
            \/ Len(days[day_idx].m["activities"].items) = 0
    THEN [status |-> Raise("ValueError", "must have at least one activity"),
          days |-> days]
    ELSE DayActivitiesChecked(
             days, day_idx,
             ValidateActivities(days[day_idx].m["activities"].items, 1))

\* lines 255-275, from the day at position day_idx on
ValidateDays(days, day_idx) ==
    IF day_idx > Len(days) THEN [status |-> NoError, days |-> days]
    ELSE DayChecked(days, day_idx,
                    ValidateJsonStructure(days[day_idx], required_day_keys))

\* the itinerary after the loop of lines 255-275; checked is the outcome of
\* that loop
DaysChecked(itinerary, checked) ==
    [status |-> checked.status,
     itinerary |-> JDict([itinerary.m EXCEPT !["daily_plans"] = JList(checked.days)])]

\* mutant: an empty daily_plans list is let through
ItineraryChecked_AllowsNoDays(itinerary, keys) ==
    IF keys.error # "none" THEN [status |-> keys, itinerary |-> itinerary]
    ELSE IF itinerary.t # "dict"
    THEN [status |-> Raise("TypeError", "indices must be integers"),
          itinerary |-> itinerary]
    ELSE IF itinerary.m["daily_plans"].t # "list"
    THEN [status |-> Raise("ValueError", "daily_plans must be a non-empty list"),
          itinerary |-> itinerary]
    ELSE DaysChecked(itinerary, ValidateDays(itinerary.m["daily_plans"].items, 1))

\* lines 249-275; keys is the outcome of the key check of line 249
ItineraryChecked(itinerary, keys) ==
    IF keys.error # "none" THEN [status |-> keys, itinerary |-> itinerary]
    ELSE IF itinerary.t # "dict"
    THEN [status |-> Raise("TypeError", "indices must be integers"),
          itinerary |-> itinerary]
    ELSE IF \/ itinerary.m["daily_plans"].t # "list"
            \/ Len(itinerary.m["daily_plans"].items) = 0
    THEN [status |-> Raise("ValueError", "daily_plans must be a non-empty list"),
          itinerary |-> itinerary]
    ELSE DaysChecked(itinerary, ValidateDays(itinerary.m["daily_plans"].items, 1))

ValidateItinerary(itinerary) ==
    ItineraryChecked(itinerary, ValidateJsonStructure(itinerary, required_keys))

---------------------------------------------------------------------------
(* GeminiAPI._get_mock_suggestions, GeminiAPI._get_mock_itinerary          *)

MockSuggestions ==
    JDict([
        attractions |-> JList(<<
            JDict([name |-> JStr("ParisianMuseum"),
                   description |-> JStr("Historicalartifacts"),
                   cost |-> JStr("20EUR"),
                   time_needed |-> JStr("3hours")]),
            JDict([name |-> JStr("EiffelTower"),
                   description |-> JStr("IconicParisianlandmark"),
                   cost |-> JStr("25EUR"),
                   time_needed |-> JStr("2hours")]),
            JDict([name |-> JStr("NotreDame"),
                   description |-> JStr("Historicalcathedral"),
                   cost |-> JStr("0EUR"),
                   time_needed |-> JStr("1hour")])>>),
        restaurants |-> JList(<<
            JDict([name |-> JStr("LeBistro"),
                   description |-> JStr("Traditionalfrenchcuisine"),
                   cost |-> JStr("30EUR"),
                   cuisine |-> JStr("French")]),
            JDict([name |-> JStr("CafeParis"),
                   description |-> JStr("Casualfrenchdining"),
                   cost |-> JStr("25EUR"),
                   cuisine |-> JStr("French")]),
            JDict([name |-> JStr("BrasserieRoyal"),
                   description |-> JStr("Elegantdining"),
                   cost |-> JStr("45EUR"),
                   cuisine |-> JStr("French")])>>),
        activities |-> JList(<<
            JDict([name |-> JStr("RiverCruise"),
                   description |-> JStr("SeineRivertour"),
                   cost |-> JStr("15EUR"),
                   time_needed |-> JStr("1hour")]),
            JDict([name |-> JStr("WineTours"),
                   description |-> JStr("Winetasting"),
                   cost |-> JStr("40EUR"),
                   time_needed |-> JStr("3hours")]),
            JDict([name |-> JStr("BikeRental"),
                   description |-> JStr("Citybiketour"),
                   cost |-> JStr("10EUR"),
                   time_needed |-> JStr("2hours")])>>)])

MockItinerary ==
    JDict([
        daily_plans |-> JList(<<
            JDict([
                day |-> JInt(1),
                date |-> JStr("2024-03-30"),
                activities |-> JList(<<
                    JDict([time |-> JStr("09:00"),
                           duration |-> JStr("3hours"),
                           description |-> JStr("ExploreMuseum"),
                           location |-> JStr("ParisianMuseum"),
                           cost |-> JStr("20EUR"),
                           type |-> JStr("activity")]),
                    JDict([time |-> JStr("12:30"),
                           duration |-> JStr("1hour"),
                           description |-> JStr("Lunch"),
                           location |-> JStr("LeBistro"),
                           cost |-> JStr("30EUR"),
                           type |-> JStr("meal")]),
                    JDict([time |-> JStr("14:00"),
                           duration |-> JStr("2hours"),
                           description |-> JStr("CityTour"),
                           location |-> JStr("BikeRental"),
                           cost |-> JStr("10EUR"),
                           type |-> JStr("activity")])>>),
                daily_budget |-> JStr("60EUR"),
                notes |-> JStr("Startwithamuseumvisitandrelaxingbiketouraround")])>>),
        total_budget |-> JStr("60EUR"),
        general_tips |-> JList(<<
            JStr("Bookmuseumticketsinadvance"),
            JStr("Uselocaltransport"),
            JStr("Carrywater")>>),
        emergency_contacts |-> JDict([police |-> JStr("17"),
               ambulance |-> JStr("15"),
               tourist_police |-> JStr("17")])])

---------------------------------------------------------------------------
(* The model collaborator.  One call of model.generate_content either      *)
(* raises (a quota error carries the word quota in its message, any other  *)
(* error does not), or returns an empty text, or returns a text.  A text   *)
(* is given by what _clean_json_text and json.loads make of it (lines      *)
(* 363-375 of _parse_json_response): a JSON value, or JInvalid when the    *)
(* text does not parse even after repair.                                  *)

NotAsked == [kind |-> "not asked", json |-> JNull]
QuotaError == [kind |-> "quota error", json |-> JNull]
TransportError == [kind |-> "error", json |-> JNull]
EmptyText == [kind |-> "empty text", json |-> JNull]
Text(json) == [kind |-> "text", json |-> json]

\* GeminiAPI._generate_response: what it does with the collaborator's
\* answer, on an object whose use_mock is mock
GenerateResponse(mock, response) ==
    CASE response.kind = "text" ->
            [error |-> "none", use_mock |-> mock]
      [] response.kind = "empty text" ->
            [error |-> "ValueError", use_mock |-> mock]
      [] response.kind = "error" ->
            [error |-> "Exception", use_mock |-> mock]
      [] response.kind = "quota error" ->
            [error |-> "Exception", use_mock |-> TRUE]

---------------------------------------------------------------------------
(* GeminiAPI._parse_json_response, from the loaded JSON value on            *)

suggestion_keys == <<"attractions", "restaurants", "activities">>

HasSpace(s) == \E i \in 1..Len(s) : SubSeq(s, i, i) = " "

\* s.replace(' ', '')
RemoveSpaces(s) == Str(SelectSeq(Chars(s), LAMBDA c : c # " "))

\* lines 383-388 for one item: a key with a space is renamed and then
\* looked up under its old name
ItemKeyError(item) ==
    item.t = "dict" /\ \E k \in DOMAIN item.m : HasSpace(k)

NormalizedItem(item) ==
    IF item.t # "dict" THEN item
    ELSE JDict([k \in DOMAIN item.m |->
                   IF item.m[k].t = "str"
                   THEN JStr(RemoveSpaces(item.m[k].s)) ELSE item.m[k]])

\* lines 380-388 for the keys of the list keys, in order
RECURSIVE NormalizedLists(_, _)
NormalizedLists(data, keys) ==
    IF keys = <<>> THEN [status |-> NoError, data |-> data]
    ELSE IF ~HasKey(data, Head(keys)) THEN NormalizedLists(data, Tail(keys))
    ELSE IF data.t # "dict"
    THEN [status |-> Raise("TypeError", "indices must be integers"), data |-> data]
    ELSE IF data.m[Head(keys)].t # "list" THEN NormalizedLists(data, Tail(keys))
    ELSE
    LET items == data.m[Head(keys)].items
    IN  IF \E i \in 1..Len(items) : ItemKeyError(items[i])
        THEN [status |-> Raise("KeyError", "key with a space"), data |-> data]
        ELSE NormalizedLists(
                 JDict([data.m EXCEPT ![Head(keys)] =
                           JList([i \in 1..Len(items) |-> NormalizedItem(items[i])])]),
                 Tail(keys))

\* line 390, or the exception of the loop of lines 380-388
NormalizedOrRaised(normalized) ==
    IF normalized.status.error # "none"
    THEN [status |-> normalized.status, data |-> JNull]
    ELSE normalized

\* lines 377-390; keys is the outcome of the key check
KeysChecked(loaded, keys) ==
    IF keys.error # "none" THEN [status |-> keys, data |-> JNull]
    ELSE NormalizedOrRaised(NormalizedLists(loaded, suggestion_keys))

ParseJsonResponse(loaded, expected_keys) ==
    IF loaded = JInvalid
    THEN [status |-> Raise("ValueError", "JSON parse failed"), data |-> JNull]
    ELSE KeysChecked(loaded, ValidateJsonStructure(loaded, expected_keys))

\* lines 364-375 on the sanitized text; first is what json.loads makes of it
LoadedOrRepaired(cleaned, first) ==
    IF first # JInvalid THEN first ELSE JsonLoads(RepairTruncatedJson(cleaned))

\* lines 363-375: the value loaded from a response text, JInvalid when the
\* text does not parse even after the repair
LoadResponse(text) ==
    LoadedOrRepaired(CleanJsonText(text), JsonLoads(CleanJsonText(text)))

---------------------------------------------------------------------------
(* GeminiAPI._create_itinerary_prompt: the exception it raises, if any     *)

\* a['name'], a['cost'] for one element a of a suggestion list
PlaceError(a) ==
    IF a.t # "dict" THEN "TypeError"
    ELSE IF "name" \notin DOMAIN a.m \/ "cost" \notin DOMAIN a.m THEN "KeyError"
    ELSE "none"

\* the comprehension over suggestions.get(key, [])
PlacesError(suggestions, key) ==
    IF key \notin DOMAIN suggestions.m THEN "none"
    ELSE LET places == suggestions.m[key]
         IN  CASE places.t = "list" ->
                    IF \A i \in 1..Len(places.items) : PlaceError(places.items[i]) = "none"
                    THEN "none"
                    ELSE PlaceError(places.items[
                             CHOOSE i \in 1..Len(places.items) :
                                /\ PlaceError(places.items[i]) # "none"
                                /\ \A j \in 1..(i - 1) : PlaceError(places.items[j]) = "none"])
               [] places.t = "str" -> IF places.s = "" THEN "none" ELSE "TypeError"
               [] places.t = "dict" -> IF DOMAIN places.m = {} THEN "none" ELSE "TypeError"
               [] OTHER -> "TypeError"

CreateItineraryPromptError(suggestions) ==
    IF suggestions.t # "dict" THEN "AttributeError"
    ELSE IF PlacesError(suggestions, "attractions") # "none"
    THEN PlacesError(suggestions, "attractions")
    ELSE IF PlacesError(suggestions, "restaurants") # "none"
    THEN PlacesError(suggestions, "restaurants")
    ELSE PlacesError(suggestions, "activities")

---------------------------------------------------------------------------
(* GeminiAPI.generate_suggestions and GeminiAPI.generate_itinerary as      *)
(* functions of the object's state and of the collaborator's answers.      *)
(* Each gives the outcome of the call ("returned" with a value, "raised"   *)
(* with the exception), the object's state after it, and the answer it     *)
(* consumed.                                                               *)

\* the except branch of both methods, entered with use_mock = mock
Fallback(mock, generated_suggestions, error, fallback_value, asked) ==
    IF ~mock
    THEN [outcome |-> "returned", value |-> fallback_value, error |-> "none",
          use_mock |-> TRUE, generated_suggestions |-> generated_suggestions,
          asked |-> asked]
    ELSE [outcome |-> "raised", value |-> JNull, error |-> error,
          use_mock |-> mock, generated_suggestions |-> generated_suggestions,
          asked |-> asked]

\* lines 156-158; parsed is the outcome of _parse_json_response
SuggestionsParsed(mock, generated_suggestions, response, parsed) ==
    IF parsed.status.error # "none"
    THEN Fallback(mock, generated_suggestions, parsed.status.error,
                  MockSuggestions, response)
    ELSE [outcome |-> "returned", value |-> parsed.data, error |-> "none",
          use_mock |-> mock, generated_suggestions |-> parsed.data,
          asked |-> response]

\* lines 154-158; generated is the outcome of _generate_response
SuggestionsGenerated(mock, generated_suggestions, response, generated) ==
    IF generated.error # "none"
    THEN Fallback(generated.use_mock, generated_suggestions, generated.error,
                  MockSuggestions, response)
    ELSE SuggestionsParsed(mock, generated_suggestions, response,
                           ParseJsonResponse(response.json, suggestion_keys))

\* mutant: the model is asked in mock mode too
SuggestionsCall_AsksInMockMode(mock, generated_suggestions, response) ==
    SuggestionsGenerated(mock, generated_suggestions, response,
                         GenerateResponse(mock, response))

SuggestionsCall(mock, generated_suggestions, response) ==
    IF mock
    THEN [outcome |-> "returned", value |-> MockSuggestions, error |-> "none",
          use_mock |-> mock, generated_suggestions |-> generated_suggestions,
          asked |-> NotAsked]
    ELSE SuggestionsGenerated(mock, generated_suggestions, response,
                              GenerateResponse(mock, response))

\* not self.context.get("generated_suggestions")
Falsy(value) ==
    \/ value.t = "NoneType"
    \/ value.t = "dict" /\ DOMAIN value.m = {}
    \/ value.t = "list" /\ value.items = <<>>
    \/ value.t = "str" /\ value.s = ""
    \/ value.t \in {"int", "bool", "float"} /\ EqualsInt(value, 0)

\* mutant: the fallback stores the mock itinerary in the context
ItineraryExcept_StoresMock(mock, ctx, error, asked_suggestions, asked_itinerary) ==
    IF ~mock
    THEN [outcome |-> "returned", value |-> MockItinerary, error |-> "none",
          use_mock |-> TRUE,
          context |-> [ctx EXCEPT !.final_itinerary = MockItinerary],
          asked_suggestions |-> asked_suggestions, asked_itinerary |-> asked_itinerary]
    ELSE [outcome |-> "raised", value |-> JNull, error |-> error,
          use_mock |-> mock, context |-> ctx,
          asked_suggestions |-> asked_suggestions, asked_itinerary |-> asked_itinerary]

\* the except branch of generate_itinerary (lines 208-215), entered with
\* use_mock = mock and the context ctx
ItineraryExcept(mock, ctx, error, asked_suggestions, asked_itinerary) ==
    IF ~mock
    THEN [outcome |-> "returned", value |-> MockItinerary, error |-> "none",
          use_mock |-> TRUE, context |-> ctx,
          asked_suggestions |-> asked_suggestions, asked_itinerary |-> asked_itinerary]
    ELSE [outcome |-> "raised", value |-> JNull, error |-> error,
          use_mock |-> mock, context |-> ctx,
          asked_suggestions |-> asked_suggestions, asked_itinerary |-> asked_itinerary]

\* lines 206-207; validated is the outcome of _validate_itinerary
ItineraryValidated(mock, ctx, asked_suggestions, itinerary_response, validated) ==
    IF validated.status.error # "none"
    THEN ItineraryExcept(mock, ctx, validated.status.error, asked_suggestions,
                         itinerary_response)
    ELSE [outcome |-> "returned", value |-> validated.itinerary, error |-> "none",
          use_mock |-> mock,
          context |-> [ctx EXCEPT !.final_itinerary = validated.itinerary],
          asked_suggestions |-> asked_suggestions,
          asked_itinerary |-> itinerary_response]

\* lines 205-207; parsed is the outcome of _parse_json_response
ItineraryParsed(mock, ctx, asked_suggestions, itinerary_response, parsed) ==
    IF parsed.status.error # "none"
    THEN ItineraryExcept(mock, ctx, parsed.status.error, asked_suggestions,
                         itinerary_response)
    ELSE ItineraryValidated(mock, ctx, asked_suggestions, itinerary_response,
                            ValidateItinerary(parsed.data))

\* lines 204-207; generated is the outcome of _generate_response
ItineraryGenerated(mock, ctx, asked_suggestions, itinerary_response, generated) ==
    IF generated.error # "none"
    THEN ItineraryExcept(generated.use_mock, ctx, generated.error, asked_suggestions,
                         itinerary_response)
    ELSE ItineraryParsed(mock, ctx, asked_suggestions, itinerary_response,
                         ParseJsonResponse(itinerary_response.json, required_keys))

\* lines 203-207, with the suggestions in the context
ItineraryPrompted(mock, ctx, asked_suggestions, itinerary_response) ==
    IF CreateItineraryPromptError(ctx.generated_suggestions) # "none"
    THEN ItineraryExcept(mock, ctx,
                         CreateItineraryPromptError(ctx.generated_suggestions),
                         asked_suggestions, NotAsked)
    ELSE ItineraryGenerated(mock, ctx, asked_suggestions, itinerary_response,
                            GenerateResponse(mock, itinerary_response))

\* line 201 and on; nested is the outcome of the generate_suggestions call
ItinerarySuggested(ctx, itinerary_response, nested) ==
    IF nested.outcome = "raised"
    THEN ItineraryExcept(
             nested.use_mock,
             [ctx EXCEPT !.generated_suggestions = nested.generated_suggestions],
             nested.error, nested.asked, NotAsked)
    ELSE ItineraryPrompted(nested.use_mock,
                           [ctx EXCEPT !.generated_suggestions = nested.value],
                           nested.asked, itinerary_response)

ItineraryCall(mock, ctx, suggestions_response, itinerary_response) ==
    IF mock
    THEN [outcome |-> "returned", value |-> MockItinerary, error |-> "none",
          use_mock |-> mock, context |-> ctx,
          asked_suggestions |-> NotAsked, asked_itinerary |-> NotAsked]
    ELSE IF Falsy(ctx.generated_suggestions)
    THEN ItinerarySuggested(
             ctx, itinerary_response,
             SuggestionsCall(mock, ctx.generated_suggestions, suggestions_response))
    ELSE ItineraryPrompted(mock, ctx, NotAsked, itinerary_response)

---------------------------------------------------------------------------
(* The parsed itineraries the validator is exercised on: of every shape   *)
(* up to MaxDays days and MaxActs activities a day, and single days whose  *)
(* activities take every listed time and type.                             *)

Activity(time, type) ==
    JDict([time |-> JStr(time), duration |-> JStr("1hour"),
           description |-> JStr("Visitmuseum"), location |-> JStr("TheLouvre"),
           cost |-> JStr("20EUR"), type |-> JStr(type)])

Day(n, activities) ==
    JDict([day |-> JInt(n), date |-> JStr("2024-03-30"),
           activities |-> activities, daily_budget |-> JStr("35EUR"),
           notes |-> JStr("Morningactivities")])

Itinerary(daily_plans) ==
    JDict([daily_plans |-> daily_plans, total_budget |-> JStr("35EUR"),
           general_tips |-> JList(<<JStr("Usemetro")>>),
           emergency_contacts |-> JDict([police |-> JStr("17")])])

\* the object without one of its keys
Without(object, key) ==
    JDict([k \in DOMAIN object.m \ {key} |-> object.m[k]])

With(object, key, value) ==
    JDict([k \in DOMAIN object.m \cup {key} |->
              IF k = key THEN value ELSE object.m[k]])

GoodActivity == Activity("09:00", "activity")

ShapeActivities == {Activity("930", "Meal"), Activity("9h", "snack")}

ShapeActivityValues ==
    {JList(acts) : acts \in SeqsUpTo(ShapeActivities, MaxActs)} \cup {JStr("none")}

ShapeDays ==
    {Day(n, a) : n \in 0..(MaxDays + 1), a \in ShapeActivityValues}
    \cup {Without(Day(n, JList(<<GoodActivity>>)), k) :
             n \in 1..MaxDays, k \in SeqToSet(required_day_keys)}

ShapeItineraries ==
    {Itinerary(JList(days)) : days \in SeqsUpTo(ShapeDays, MaxDays)}
    \cup {Itinerary(JInt(3))}
    \cup {Without(Itinerary(JList(<<Day(1, JList(<<GoodActivity>>))>>)), k) :
             k \in SeqToSet(required_keys)}

ContentTimes == {"09:00", "14:05", "9h", "930", "99", "2570", "abc"}
ContentTypes == {"activity", "Meal", "TRANSPORT", "mEaL", "snack", "Snack"}

ContentActivities ==
    {Activity(time, type) : time \in ContentTimes, type \in ContentTypes}
    \cup {Without(GoodActivity, k) : k \in {"time", "type", "cost"}}
    \cup {With(GoodActivity, "type", JInt(1)), With(GoodActivity, "time", JInt(900))}

ContentItineraries ==
    {Itinerary(JList(<<Day(1, JList(acts))>>)) :
        acts \in SeqsUpTo(ContentActivities, MaxActs)}

\* the list of the keys themselves, which passes the key check of line 283
\* as an object having them does
KeyList(keys) == JList([i \in 1..Len(keys) |-> JStr(keys[i])])

\* days numbered n that are no objects, or whose activities are none
OddDays(n) ==
    {KeyList(required_day_keys), JStr("day date activities daily_budget"),
     Day(n, JList(<<KeyList(required_activity_keys)>>)),
     Day(n, JList(<<GoodActivity,
                    JStr("time duration description location cost type")>>)),
     Day(n, JDict(<<>>)), Day(n, JNull)}

OddItineraries ==
    {Itinerary(JList(<<day>>)) : day \in OddDays(1)}
    \cup {Itinerary(JList(<<Day(1, JList(<<GoodActivity>>)), day>>)) :
             day \in OddDays(2)}
    \cup {KeyList(required_keys), Itinerary(JDict(<<>>))}

\* what a day may carry as its number besides an int: floats that equal
\* the position and floats that do not, booleans, a string, null
DayNumbers ==
    {JFloat("1.0"), JFloat("1e0"), JFloat("10e-1"), JFloat("2.0"), JFloat("1.5"),
     JFloat("1.0000000000000000001"), JFloat("0.9999999999999999"),
     JFloat("NaN"), JBool(TRUE), JBool(FALSE), JStr("1"), JNull}

NumberedItineraries ==
    {Itinerary(JList(<<With(Day(1, JList(<<GoodActivity>>)), "day", number)>>)) :
        number \in DayNumbers}
    \cup {Itinerary(JList(<<Day(1, JList(<<GoodActivity>>)),
                            With(Day(2, JList(<<GoodActivity>>)), "day", number)>>)) :
              number \in DayNumbers}

Itineraries ==
    ShapeItineraries \cup ContentItineraries \cup OddItineraries
        \cup NumberedItineraries

---------------------------------------------------------------------------
(* The requests and the answers of the collaborator the GeminiAPI object  *)
(* is exercised on                                                         *)

TravelRequests ==
    {[destination |-> "Paris", duration |-> d, budget |-> "Moderate",
      interests |-> <<"Art">>] : d \in {1, 2}}

Attraction(name) ==
    JDict([name |-> JStr(name), description |-> JStr("Famousmuseum"),
           cost |-> JStr("20EUR"), time_needed |-> JStr("3hours")])

Restaurant(name) ==
    JDict([name |-> JStr(name), description |-> JStr("Bistro"),
           cost |-> JStr("15EUR"), cuisine |-> JStr("French")])

Suggestions(attractions, restaurants, activities) ==
    JDict([attractions |-> JList(attractions), restaurants |-> JList(restaurants),
           activities |-> JList(activities)])

GoodSuggestions ==
    Suggestions(<<Attraction("TheLouvre")>>, <<Restaurant("ChezPaul")>>,
                <<Attraction("RiverCruise")>>)

\* the JSON values a suggestion response can load to
SuggestionLoads ==
    {GoodSuggestions,
     Suggestions(<<Attraction("The Louvre")>>, <<>>, <<>>),
     Suggestions(<<>>, <<>>, <<>>),
     Suggestions(<<Without(Attraction("TheLouvre"), "name")>>, <<>>, <<>>),
     Suggestions(<<JDict([name |-> JStr("TheLouvre"), cost |-> JStr("20EUR")]
                         @@ ("time needed" :> JStr("3hours")))>>, <<>>, <<>>),
     Without(GoodSuggestions, "restaurants"),
     JList(<<JStr("attractions"), JStr("restaurants"), JStr("activities")>>),
     JInvalid}

\* the JSON values an itinerary response can load to
ItineraryLoads ==
    {Itinerary(JList(<<Day(1, JList(<<GoodActivity>>))>>)),
     Itinerary(JList(<<Day(1, JList(<<Activity("930", "meal")>>)),
                       Day(2, JList(<<GoodActivity, Activity("12:30", "transport")>>))>>)),
     Itinerary(JList(<<Day(1, JList(<<Activity("99", "activity")>>))>>)),
     Itinerary(JList(<<Day(1, JList(<<Activity("12:00", "Meal")>>))>>)),
     Itinerary(JList(<<Day(1, JList(<<Activity("12:00", "snack")>>))>>)),
     Itinerary(JList(<<Day(2, JList(<<GoodActivity>>))>>)),
     Itinerary(JList(<<Day(1, JList(<<>>))>>)),
     Itinerary(JList(<<>>)),
     Without(Itinerary(JList(<<Day(1, JList(<<GoodActivity>>))>>)), "general_tips"),
     GoodSuggestions,
     JInvalid}

Failures == {QuotaError, TransportError, EmptyText}

SuggestionResponses == Failures \cup {Text(json) : json \in SuggestionLoads}
ItineraryResponses == Failures \cup {Text(json) : json \in ItineraryLoads}

---------------------------------------------------------------------------
(* The variables of a specification that does not use them                *)

NoCall ==
    [op |-> "none", travel_data |-> <<>>, entry_mock |-> FALSE,
     entry_suggestions |-> JNull,
     suggestions_response |-> NotAsked, itinerary_response |-> NotAsked,
     outcome |-> "none", value |-> JNull, error |-> "none"]

\* the state the variables of the object keep in the specifications of
\* the single functions
ApiIdle ==
    /\ use_mock = TRUE
    /\ context = [generated_suggestions |-> JNull, final_itinerary |-> JNull]
    /\ call = NoCall

FnIdle == arg = "" /\ ret = "" /\ op = "init"

ParseIdle ==
    /\ response_text = "" /\ parse_keys = <<>> /\ json_str = ""
    /\ json_data = JNull /\ parse_pc = "idle" /\ parse_calls = <<>>

NoInit == [pc |-> "none", events |-> <<>>, model |-> "None"]
NoWeather == [session |-> "None", closed |-> FALSE, open |-> 0]
NoForecast == [op |-> "none"]
NoSession == [current_step |-> 0]
NoRun == [action |-> "none"]

InitIdle == init = NoInit

WeatherIdle == weather = NoWeather /\ forecast = NoForecast /\ exits = 0

SessionIdle == session = NoSession /\ run = NoRun

AppIdle == InitIdle /\ WeatherIdle /\ SessionIdle

---------------------------------------------------------------------------
(* Specification of the time normaliser: a token, then the call            *)

TimeAlphabet == {"0", "1", "2", "3", "5", "9", ":", "h", " "}

TimeSamples ==
    {"9h", "930", "14:05", "99", "2570", "abc", "0930", "23:59", "24:00",
     "\"12\"", " 7 ", "12:60", "9:5", "'9:30'"}

TimeTokens == StringsUpTo(TimeAlphabet, MaxTimeLen) \cup TimeSamples

InitTime == arg \in TimeTokens /\ ret = "" /\ op = "init" /\ ApiIdle /\ ParseIdle /\ AppIdle

CallValidateTimeFormat ==
    /\ op = "init"
    /\ op' = "_validate_time_format"
    /\ ret' = ValidateTimeFormat(arg)
    /\ arg' = arg
    /\ UNCHANGED <<appVars, apiVars, parseVars>>

NextTime == CallValidateTimeFormat

SpecTime == InitTime /\ [][NextTime]_vars

---------------------------------------------------------------------------
(* Specification of the truncation repairer: a text, then the call         *)

RepairAlphabet == {"{", "}", "[", "]", " ", "1"}

RepairSamples == {"{\"a\":[1,2", "{\"attractions\":[", "{\"a\":{\"b\":1}"}

RepairTexts == StringsUpTo(RepairAlphabet, MaxRepairLen) \cup RepairSamples

InitRepair == arg \in RepairTexts /\ ret = "" /\ op = "init" /\ ApiIdle /\ ParseIdle /\ AppIdle

CallRepairTruncatedJson ==
    /\ op = "init"
    /\ op' = "_repair_truncated_json"
    /\ ret' = RepairTruncatedJson(arg)
    /\ arg' = arg
    /\ UNCHANGED <<appVars, apiVars, parseVars>>

NextRepair == CallRepairTruncatedJson

SpecRepair == InitRepair /\ [][NextRepair]_vars

---------------------------------------------------------------------------
(* Specification of the itinerary validator: a parsed itinerary, then the  *)
(* call                                                                    *)

InitValidate ==
    /\ arg \in Itineraries
    /\ ret = [status |-> NoError, itinerary |-> JNull]
    /\ op = "init"
    /\ ApiIdle
    /\ AppIdle
    /\ ParseIdle

CallValidateItinerary ==
    /\ op = "init"
    /\ op' = "_validate_itinerary"
    /\ ret' = ValidateItinerary(arg)
    /\ arg' = arg
    /\ UNCHANGED <<appVars, apiVars, parseVars>>

NextValidate == CallValidateItinerary

SpecValidate == InitValidate /\ [][NextValidate]_vars

---------------------------------------------------------------------------
(* Specification of the GeminiAPI object: construction, then any sequence  *)
(* of generate_suggestions and generate_itinerary calls, the collaborator  *)
(* answering each model call in any of its ways.                           *)

\* GeminiAPI.__init__ leaves the object in mock mode or with a model
Init ==
    /\ use_mock \in BOOLEAN
    /\ context = [generated_suggestions |-> JNull, final_itinerary |-> JNull]
    /\ call = NoCall
    /\ ParseIdle
    /\ AppIdle
    /\ FnIdle

\* the object and the record of the call after generate_suggestions; done is
\* the outcome of the call
SuggestionsDone(travel_data, done) ==
    /\ use_mock' = done.use_mock
    /\ context' = [context EXCEPT !.generated_suggestions = done.generated_suggestions]
    /\ call' = [op |-> "generate_suggestions", travel_data |-> travel_data,
                entry_mock |-> use_mock,
                entry_suggestions |-> context.generated_suggestions,
                suggestions_response |-> done.asked,
                itinerary_response |-> NotAsked,
                outcome |-> done.outcome, value |-> done.value,
                error |-> done.error]
    /\ UNCHANGED <<appVars, parseVars, fnVars>>

GenerateSuggestions ==
    \E travel_data \in TravelRequests, response \in SuggestionResponses :
        SuggestionsDone(travel_data,
                        SuggestionsCall(use_mock, context.generated_suggestions,
                                        response))

\* the object and the record of the call after generate_itinerary
ItineraryDone(travel_data, done) ==
    /\ use_mock' = done.use_mock
    /\ context' = done.context
    /\ call' = [op |-> "generate_itinerary", travel_data |-> travel_data,
                entry_mock |-> use_mock,
                entry_suggestions |-> context.generated_suggestions,
                suggestions_response |-> done.asked_suggestions,
                itinerary_response |-> done.asked_itinerary,
                outcome |-> done.outcome, value |-> done.value,
                error |-> done.error]
    /\ UNCHANGED <<appVars, parseVars, fnVars>>

GenerateItinerary ==
    \E travel_data \in TravelRequests,
       suggestions_response \in SuggestionResponses,
       itinerary_response \in ItineraryResponses :
        ItineraryDone(travel_data,
                      ItineraryCall(use_mock, context, suggestions_response,
                                    itinerary_response))

Next == GenerateSuggestions \/ GenerateItinerary

Spec == Init /\ [][Next]_vars

---------------------------------------------------------------------------
(* Specification of _parse_json_response, statement by statement: the      *)
(* sanitizer, the first json.loads, on its failure the repairer and the    *)
(* second json.loads, then the key check and the normalisation of the      *)
(* suggestion lists.                                                       *)

TextAlphabet == {"{", "}", "[", "]", Quote, "1", " "}

FencedSuggestions ==
    "^^^json\n{\"attractions\":[{\"name\":\"The Louvre\",\"description\":"
    \o "\"Famous museum\",\"cost\":\"20 EUR\",\"time_needed\":\"3 hours\"}],"
    \o "\"restaurants\":[],\"activities\":[]}\n^^^"

TextSamples ==
    {FencedSuggestions,
     "{\"attractions\":[",
     "{\"attractions\":[],\"restaurants\":[],\"activities\":[]",
     "{\"a\":{\"b\":{\"c\":{\"d\":1}}}",
     "{\"a\":[1,2",
     "} {\"a\":1",
     "{\"t\":\"9h\"}",
     "{\"t\":\"930\"}",
     "{a: 'b c', \"d\":\"\"e\"\"}..."}

\* the text of a suggestions object with one attraction
SuggestionsText(name, description, cost, time_needed) ==
    "{\"attractions\":[{\"name\":\"" \o name \o "\",\"description\":\""
    \o description \o "\",\"cost\":\"" \o cost \o "\",\"time_needed\":\""
    \o time_needed \o "\"}],\"restaurants\":[],\"activities\":[]}"

FenceOpenings == {"^^^json\n", "^^^\n", "^^^"}
FenceClosings == {"\n^^^", "^^^"}
SpacedNames == {"The Louvre", " Le  Grand Palais "}

\* responses that are a suggestions object with spaces in its strings, in
\* code fences: the text, the text the sanitizer is to make of it and the
\* value that text stands for
FencedResponses ==
    {[text |-> opening \o SuggestionsText(name, "Famous museum", "20 EUR", "3 hours")
                 \o closing,
      clean |-> SuggestionsText(RemoveSpaces(name), "Famousmuseum", "20EUR", "3hours"),
      data |-> Suggestions(<<Attraction(RemoveSpaces(name))>>, <<>>, <<>>)] :
        opening \in FenceOpenings, closing \in FenceClosings, name \in SpacedNames}

\* JSON objects as the prompts ask for them: on one line, without spaces
CompleteTexts ==
    {"{\"a\":{\"b\":{\"c\":{\"d\":1}}}}", "{\"a\":1}",
     "{\"a\":[1,2],\"b\":{\"c\":\"x\"}}",
     "{\"a\":{\"b\":1},\"c\":2}",
     SuggestionsText("TheLouvre", "Famousmuseum", "20EUR", "3hours")}

\* the number of closing braces the text ends with
FinalBraces(text) == Len(text) - Len(RStripChars(Chars(text), {"}"}))

\* the complete texts cut short of one or more of their final closing
\* braces
BraceTruncations ==
    UNION {{[text |-> SubSeq(complete, 1, Len(complete) - missing),
             complete |-> complete] : missing \in 1..FinalBraces(complete)} :
           complete \in CompleteTexts}

ResponseTexts ==
    StringsUpTo(TextAlphabet, MaxTextLen) \cup TextSamples
    \cup {response.text : response \in FencedResponses}
    \cup {response.text : response \in BraceTruncations}

\* the record of a call of json.loads that gave data
LoadsCall(caller, text, data) ==
    [fn |-> "json.loads", caller |-> caller, arg |-> text, ok |-> data # JInvalid]

RepairCall(caller, text) ==
    [fn |-> "_repair_truncated_json", caller |-> caller, arg |-> text, ok |-> TRUE]

InitParse ==
    /\ response_text \in ResponseTexts
    /\ parse_keys \in {suggestion_keys, required_keys}
    /\ json_str = ""
    /\ json_data = JNull
    /\ parse_pc = "start"
    /\ parse_calls = <<>>
    /\ ApiIdle
    /\ AppIdle
    /\ FnIdle

\* line 363
Clean ==
    /\ parse_pc = "start"
    /\ json_str' = CleanJsonText(response_text)
    /\ parse_calls' = IF CleanCallsRepair(response_text)
                      THEN <<RepairCall("_clean_json_text",
                                        CleanRepairArgument(response_text))>>
                      ELSE <<>>
    /\ parse_pc' = "cleaned"
    /\ UNCHANGED <<appVars, response_text, parse_keys, json_data, apiVars, fnVars>>

\* json.loads(json_str) gave data and the parser goes on at pc
Loads(data, pc) ==
    /\ parse_calls' = Append(parse_calls,
                             LoadsCall("_parse_json_response", json_str, data))
    /\ json_data' = data
    /\ parse_pc' = pc
    /\ UNCHANGED <<appVars, response_text, parse_keys, json_str, apiVars, fnVars>>

\* where the parser goes on after json.loads gave data
AfterLoads(data, failed) == IF data # JInvalid THEN "loaded" ELSE failed

\* mutant: the repair is attempted whether or not the first parse failed
FirstLoads_AlwaysRepairs ==
    /\ parse_pc = "cleaned"
    /\ Loads(JsonLoads(json_str), "load failed")

\* lines 364-366
FirstLoads ==
    /\ parse_pc = "cleaned"
    /\ Loads(JsonLoads(json_str), AfterLoads(JsonLoads(json_str), "load failed"))

\* lines 367-368
Repair ==
    /\ parse_pc = "load failed"
    /\ json_str' = RepairTruncatedJson(json_str)
    /\ parse_calls' = Append(parse_calls, RepairCall("_parse_json_response", json_str))
    /\ parse_pc' = "repaired"
    /\ UNCHANGED <<appVars, response_text, parse_keys, json_data, apiVars, fnVars>>

\* lines 369-375
SecondLoads ==
    /\ parse_pc = "repaired"
    /\ Loads(JsonLoads(json_str), AfterLoads(JsonLoads(json_str), "raised"))

\* lines 377-390
CheckAndNormalize ==
    /\ parse_pc = "loaded"
    /\ LET done == ParseJsonResponse(json_data, parse_keys)
       IN  /\ json_data' = done.data
           /\ parse_pc' = IF done.status.error = "none" THEN "returned" ELSE "raised"
    /\ UNCHANGED <<appVars, response_text, parse_keys, json_str, parse_calls, apiVars, fnVars>>

NextParse == Clean \/ FirstLoads \/ Repair \/ SecondLoads \/ CheckAndNormalize

SpecParse == InitParse /\ [][NextParse]_vars

---------------------------------------------------------------------------
(* Claims about generate_suggestions and generate_itinerary                *)

\* C1: generate_suggestions and generate_itinerary are total: whatever the
\* collaborator does and whether or not the object is in mock mode, the
\* call returns a structure and no exception reaches the caller.
C1_CallsNeverRaise == call.outcome # "raised"

\* s is HH:MM with an hour of 00-23 and a minute of 00-59
IsValidHHMM(s) ==
    /\ Len(s) = 5
    /\ SubSeq(s, 3, 3) = ":"
    /\ \A i \in {1, 2, 4, 5} : SubSeq(s, i, i) \in Digits
    /\ 10 * DigitVal(SubSeq(s, 1, 1)) + DigitVal(SubSeq(s, 2, 2)) <= 23
    /\ 10 * DigitVal(SubSeq(s, 4, 4)) + DigitVal(SubSeq(s, 5, 5)) <= 59

WellFormedActivity(activity) ==
    /\ activity.t = "dict"
    /\ {"time", "type"} \subseteq DOMAIN activity.m
    /\ activity.m["time"].t = "str" /\ IsValidHHMM(activity.m["time"].s)
    /\ activity.m["type"].t = "str"
    /\ activity.m["type"].s \in {"activity", "meal", "transport"}

WellFormedDay(day, position) ==
    /\ day.t = "dict"
    /\ {"day", "activities"} \subseteq DOMAIN day.m
    /\ day.m["day"] = JInt(position)
    /\ day.m["activities"].t = "list"
    /\ Len(day.m["activities"].items) >= 1
    /\ \A j \in 1..Len(day.m["activities"].items) :
          WellFormedActivity(day.m["activities"].items[j])

WellFormedItinerary(itinerary) ==
    /\ itinerary.t = "dict"
    /\ "daily_plans" \in DOMAIN itinerary.m
    /\ itinerary.m["daily_plans"].t = "list"
    /\ Len(itinerary.m["daily_plans"].items) >= 1
    /\ \A i \in 1..Len(itinerary.m["daily_plans"].items) :
          WellFormedDay(itinerary.m["daily_plans"].items[i], i)

\* C2: every itinerary generate_itinerary returns has at least one day,
\* days numbered by position, at least one activity a day, every time a
\* valid HH:MM and every type one of activity, meal, transport.
C2_ReturnedItineraryWellFormed ==
    call.op = "generate_itinerary" /\ call.outcome = "returned"
        => WellFormedItinerary(call.value)

\* the loaded text fails _parse_json_response or _validate_itinerary
ItineraryTextFails(json) ==
    \/ ParseJsonResponse(json, required_keys).status.error # "none"
    \/ ValidateItinerary(ParseJsonResponse(json, required_keys).data).status.error
          # "none"

SuggestionTextFails(json) ==
    ParseJsonResponse(json, suggestion_keys).status.error # "none"

\* C3: on an object that is not in mock mode at call entry, a non-empty
\* text that fails sanitize, parse or validation makes generate_suggestions
\* return the mock suggestions and generate_itinerary return the mock
\* itinerary, also when generate_itinerary had to generate the suggestions
\* itself in the same call.
C3_FailedTextGivesMock ==
    /\ /\ call.op = "generate_suggestions"
       /\ ~call.entry_mock
       /\ call.suggestions_response.kind = "text"
       /\ SuggestionTextFails(call.suggestions_response.json)
       => call.outcome = "returned" /\ call.value = MockSuggestions
    /\ /\ call.op = "generate_itinerary"
       /\ ~call.entry_mock
       /\ call.suggestions_response.kind \in {"not asked", "text"}
       /\ call.itinerary_response.kind = "text"
       /\ ItineraryTextFails(call.itinerary_response.json)
       => call.outcome = "returned" /\ call.value = MockItinerary

---------------------------------------------------------------------------
(* Claims about the truncation repairer                                    *)

BraceDeficit(text) ==
    LET d == Count(Chars(text), "{") - Count(Chars(text), "}")
    IN  IF d > 0 THEN d ELSE 0

BracketDeficit(text) ==
    LET d == Count(Chars(text), "[") - Count(Chars(text), "]")
    IN  IF d > 0 THEN d ELSE 0

EndsWith(cs, suffix) ==
    /\ Len(cs) >= Len(suffix)
    /\ SubSeq(cs, Len(cs) - Len(suffix) + 1, Len(cs)) = suffix

\* C4: the repairer closes brackets before braces: {"a":[1,2 becomes
\* {"a":[1,2]} and, whenever both a '[' and a '{' are left unclosed, the
\* appended ']' characters come before the appended '}' characters.
C4_BracketsClosedBeforeBraces ==
    op = "_repair_truncated_json" =>
        /\ arg = "{\"a\":[1,2" => ret = "{\"a\":[1,2]}"
        /\ BraceDeficit(arg) > 0 /\ BracketDeficit(arg) > 0 =>
               EndsWith(Chars(ret), Repeat("]", BracketDeficit(arg))
                                    \o Repeat("}", BraceDeficit(arg)))

\* C5 as stated: the result is the input followed by exactly the missing
\* closing braces and the missing closing brackets, nothing removed.
C5_InputIsPrefixOfOutput ==
    op = "_repair_truncated_json" =>
        ret = arg \o Str(Repeat("}", BraceDeficit(arg)))
                  \o Str(Repeat("]", BracketDeficit(arg)))

\* C5 amended: the result is the input followed by exactly the missing
\* closing braces and the missing closing brackets, with the whitespace at
\* its two ends removed; nothing else is removed, and a balanced text
\* without surrounding whitespace is returned unchanged.
C5_RepairAppendsDeficitThenStrips ==
    op = "_repair_truncated_json" =>
        LET result == Chars(ret)
            added == BraceDeficit(arg) + BracketDeficit(arg)
            kept == Len(result) - added
        IN  /\ added = 0 => result = Strip(Chars(arg))
            /\ added > 0 =>
                  /\ kept >= 0
                  /\ SubSeq(result, 1, kept) = LStripChars(Chars(arg), Whitespace)
                  /\ Count(SubSeq(result, kept + 1, Len(result)), "}")
                        = BraceDeficit(arg)
                  /\ Count(SubSeq(result, kept + 1, Len(result)), "]")
                        = BracketDeficit(arg)
            /\ added = 0 /\ Strip(Chars(arg)) = Chars(arg) => ret = arg

C5_Witness ==
    /\ op = "_repair_truncated_json"
    /\ arg = " {["
    /\ ret = "{[}]"

---------------------------------------------------------------------------
(* Claims about the order of the calls in _parse_json_response             *)

IsRepairCall(c) == c.fn = "_repair_truncated_json"

IsLoadsCall(c) == c.fn = "json.loads"

\* C6 as stated: the repairer is called only after a first json.loads of
\* the sanitized text has failed, never before the first parse (not from
\* inside the sanitizer) and never after a first parse that succeeded.
C6_RepairOnlyAfterFailedFirstParse ==
    \A i \in 1..Len(parse_calls) :
        IsRepairCall(parse_calls[i]) =>
            /\ parse_calls[i].caller # "_clean_json_text"
            /\ \E j \in 1..(i - 1) :
                  /\ IsLoadsCall(parse_calls[j]) /\ ~parse_calls[j].ok
                  /\ \A k \in 1..(j - 1) : ~IsLoadsCall(parse_calls[k])

\* C6 amended: _parse_json_response calls the repairer only right after
\* its first json.loads of the sanitized text has failed, on that text, and
\* never after a first parse that succeeded.  The sanitizer calls the
\* repairer too, before the first parse, but only on the empty text that is
\* left when the last '}' comes before the first '{'; the repair leaves it
\* empty and the first parse then fails.
C6_RepairAfterFailedParseOrOnEmptyText ==
    \A i \in 1..Len(parse_calls) :
        IsRepairCall(parse_calls[i]) =>
            \/ /\ parse_calls[i].caller = "_parse_json_response"
               /\ i >= 2
               /\ IsLoadsCall(parse_calls[i - 1])
               /\ ~parse_calls[i - 1].ok
               /\ parse_calls[i - 1].arg = parse_calls[i].arg
               /\ \A k \in 1..(i - 2) : ~IsLoadsCall(parse_calls[k])
            \/ /\ parse_calls[i].caller = "_clean_json_text"
               /\ i = 1
               /\ parse_calls[i].arg = ""
               /\ parse_pc # "start" => json_str = ""
               /\ Len(parse_calls) >= 2 =>
                     IsLoadsCall(parse_calls[2]) /\ ~parse_calls[2].ok

\* a response whose last brace is missing is repaired after the failed
\* first parse, and the repaired text is parsed and accepted
C6_Witness ==
    /\ parse_pc = "returned"
    /\ Len(parse_calls) = 3
    /\ IsLoadsCall(parse_calls[1]) /\ ~parse_calls[1].ok
    /\ IsRepairCall(parse_calls[2])
    /\ parse_calls[2].caller = "_parse_json_response"
    /\ IsLoadsCall(parse_calls[3]) /\ parse_calls[3].ok

---------------------------------------------------------------------------
(* Claims about the time normaliser                                        *)

\* C7 as stated: normalize_time maps "9h" to "9:00", "930" to "9:30" and
\* leaves "14:05" as it is.
C7_NormalizeTimeExamples ==
    op = "_validate_time_format" =>
        /\ arg = "9h" => ret = "9:00"
        /\ arg = "930" => ret = "9:30"
        /\ arg = "14:05" => ret = "14:05"

\* C7 amended: _validate_time_format maps "930" to "09:30", with the hour
\* padded to two digits, and leaves "14:05" as it is; it does not know the
\* h suffix and returns "9h" as it is, with a warning; "9:00", the form the
\* sanitizer gives a quoted "9h", it maps to "09:00".
C7_NormalizeTimePadsHour ==
    op = "_validate_time_format" =>
        /\ arg = "9h" => ret = "9h" /\ TimeFormatWarns(arg)
        /\ arg = "9:00" => ret = "09:00" /\ ~TimeFormatWarns(arg)
        /\ arg = "930" => ret = "09:30" /\ ~TimeFormatWarns(arg)
        /\ arg = "14:05" => ret = "14:05" /\ ~TimeFormatWarns(arg)

C7_Witness ==
    /\ op = "_validate_time_format"
    /\ arg = "930"
    /\ ret = "09:30"

\* C8: a token that does not parse as HH:MM is returned exactly as it was
\* given, neither trimmed nor with a colon inserted.
C8_UnparseableTokenReturnedUnchanged ==
    op = "_validate_time_format" /\ TimeFormatWarns(arg) => ret = arg

---------------------------------------------------------------------------
(* Claims about the itinerary validator                                    *)

\* the days of an itinerary and the activities of a day, <<>> where the
\* structure has none
PlansOf(itinerary) ==
    IF /\ itinerary.t = "dict"
       /\ "daily_plans" \in DOMAIN itinerary.m
       /\ itinerary.m["daily_plans"].t = "list"
    THEN itinerary.m["daily_plans"].items ELSE <<>>

ActivitiesOf(day) ==
    IF /\ day.t = "dict"
       /\ "activities" \in DOMAIN day.m
       /\ day.m["activities"].t = "list"
    THEN day.m["activities"].items ELSE <<>>

DayValues(itinerary) ==
    [i \in 1..Len(PlansOf(itinerary)) |->
        IF /\ PlansOf(itinerary)[i].t = "dict"
           /\ "day" \in DOMAIN PlansOf(itinerary)[i].m
        THEN PlansOf(itinerary)[i].m["day"] ELSE JNull]

\* some day of the itinerary has a day value different from its 1-based
\* position: the value is no number, or a number other than the position
\* (a day that is no dictionary or has no day value counts as different)
HasMisnumberedDay(itinerary) ==
    \E i \in 1..Len(PlansOf(itinerary)) : ~EqualsInt(DayValues(itinerary)[i], i)

\* C9: an itinerary with a day whose value is different from its 1-based
\* position is rejected, the validator reporting a failure, and the
\* validator never changes a day value: the day values it leaves are
\* those it was given, whether it accepts or rejects
C9_MisnumberedDayRejected ==
    op = "_validate_itinerary" =>
        /\ HasMisnumberedDay(arg) => ret.status.error # "none"
        /\ DayValues(ret.itinerary) = DayValues(arg)

\* day 2 as the first element is rejected and left as it is
C9_Witness ==
    /\ op = "_validate_itinerary"
    /\ Len(PlansOf(arg)) >= 1
    /\ DayValues(arg)[1] = JInt(2)
    /\ ret.status = Raise("ValueError", "Day numbers must be sequential")
    /\ DayValues(ret.itinerary)[1] = JInt(2)

\* the string types of the activities of an itinerary
ActivityTypes(itinerary) ==
    {a.m["type"].s : a \in {act \in UNION {SeqToSet(ActivitiesOf(d)) :
                                              d \in SeqToSet(PlansOf(itinerary))} :
                               /\ act.t = "dict"
                               /\ "type" \in DOMAIN act.m
                               /\ act.m["type"].t = "str"}}

\* s is word up to the case of its letters (word is in lower case)
SameIgnoringCase(s, word) ==
    /\ Len(s) = Len(word)
    /\ \A i \in 1..Len(s) :
          \/ SubSeq(s, i, i) = SubSeq(word, i, i)
          \/ \E k \in 1..26 : /\ LowerCase[k] = SubSeq(word, i, i)
                              /\ UpperCase[k] = SubSeq(s, i, i)

InEnumIgnoringCase(s) ==
    \E word \in {"activity", "meal", "transport"} : SameIgnoringCase(s, word)

\* C10: an itinerary with an activity whose type is, ignoring case, none
\* of activity, meal, transport is rejected; a type that is one of them in
\* any letter case is never the reason of a rejection.
C10_ActivityTypeEnumIgnoresCase ==
    op = "_validate_itinerary" =>
        /\ (\E type \in ActivityTypes(arg) : ~InEnumIgnoringCase(type))
               => ret.status.error # "none"
        /\ ret.status.reason = "Invalid activity type"
               => \E type \in ActivityTypes(arg) : ~InEnumIgnoringCase(type)

C10_Witness ==
    /\ op = "_validate_itinerary"
    /\ ActivityTypes(arg) = {"TRANSPORT", "mEaL"}
    /\ ret.status.error = "none"

\* C11: after an itinerary passes validation every activity's stored type
\* is the lower-case enum member: an accepted "Meal" or "TRANSPORT" is
\* "meal" or "transport" in the itinerary the validator leaves.
C11_AcceptedTypesStoredLowercase ==
    (op = "_validate_itinerary" /\ ret.status.error = "none") =>
        ActivityTypes(ret.itinerary) \subseteq valid_types

---------------------------------------------------------------------------
(* Specification of the key check: a parsed value and a list of required   *)
(* keys, then the call                                                     *)

KeyLists ==
    {suggestion_keys, required_keys, required_day_keys, required_activity_keys}

\* the objects that have any of the keys, and possibly a key nobody asks for
ObjectsOver(keys) ==
    {JDict([k \in present |-> JInt(1)]) : present \in SUBSET (keys \cup {"notes"})}

\* parsed values that are no objects
OtherValues(keys) ==
    {JList([i \in 1..Len(keys) |-> JStr(keys[i])]), JList(<<>>), JStr(keys[1]),
     JInt(5), JNull}

StructureCalls ==
    UNION {{[data |-> data, expected_keys |-> keys] :
               data \in ObjectsOver(SeqToSet(keys)) \cup OtherValues(keys)} :
           keys \in KeyLists}

InitStructure ==
    /\ arg \in StructureCalls
    /\ ret = NoError
    /\ op = "init"
    /\ ApiIdle
    /\ AppIdle
    /\ ParseIdle

CallValidateJsonStructure ==
    /\ op = "init"
    /\ op' = "_validate_json_structure"
    /\ ret' = ValidateJsonStructure(arg.data, arg.expected_keys)
    /\ arg' = arg
    /\ UNCHANGED <<appVars, apiVars, parseVars>>

NextStructure == CallValidateJsonStructure

SpecStructure == InitStructure /\ [][NextStructure]_vars

\* the keys of expected_keys the object data does not have, in the order of
\* expected_keys
AbsentKeys(data, expected_keys) ==
    SelectSeq(expected_keys, LAMBDA key : key \notin DOMAIN data.m)

\* C12: the key check of a parsed object fails if and only if at least one
\* required key is absent from the object, and the failure names exactly
\* the absent required keys, in the order of the required keys.
C12_FailsNamingExactlyAbsentKeys ==
    (op = "_validate_json_structure" /\ arg.data.t = "dict") =>
        /\ ret.error # "none" <=> AbsentKeys(arg.data, arg.expected_keys) # <<>>
        /\ ret.error # "none" =>
              /\ ret.error = "ValueError"
              /\ ret.reason = "Missing required keys"
              /\ ret.missing = AbsentKeys(arg.data, arg.expected_keys)

\* an object with every itinerary key but general_tips fails naming only it
C12_Witness ==
    /\ op = "_validate_json_structure"
    /\ arg.expected_keys = required_keys
    /\ arg.data.t = "dict"
    /\ DOMAIN arg.data.m = SeqToSet(required_keys) \ {"general_tips"}
    /\ ret = [error |-> "ValueError", reason |-> "Missing required keys",
              missing |-> <<"general_tips">>]

---------------------------------------------------------------------------
(* Claims about the shape of the itineraries the validator accepts         *)

\* value is a list with at least one element
NonEmptyList(value) == value.t = "list" /\ Len(value.items) >= 1

\* value is an object that has every key of keys
ObjectWith(value, keys) ==
    value.t = "dict" /\ SeqToSet(keys) \subseteq DOMAIN value.m

\* day has all its keys and at least one activity, each with all its keys
CompleteDay(day) ==
    /\ ObjectWith(day, required_day_keys)
    /\ NonEmptyList(day.m["activities"])
    /\ \A i \in 1..Len(day.m["activities"].items) :
          ObjectWith(day.m["activities"].items[i], required_activity_keys)

\* itinerary has at least one day and all its days are complete
CompleteItinerary(itinerary) ==
    /\ itinerary.t = "dict"
    /\ "daily_plans" \in DOMAIN itinerary.m
    /\ NonEmptyList(itinerary.m["daily_plans"])
    /\ \A i \in 1..Len(itinerary.m["daily_plans"].items) :
          CompleteDay(itinerary.m["daily_plans"].items[i])

\* day has no activities key, or under it no list or an empty one
LacksActivities(day) ==
    \/ day.t # "dict"
    \/ "activities" \notin DOMAIN day.m
    \/ ~NonEmptyList(day.m["activities"])

\* C13: an itinerary whose daily_plans is empty or no list is rejected, an
\* itinerary with a day whose activities is empty or no list is rejected,
\* and an accepted itinerary has at least one day, every day with all the
\* day keys and at least one activity, every activity with all the
\* activity keys.
C13_AcceptedItineraryIsComplete ==
    op = "_validate_itinerary" =>
        /\ (arg.t = "dict" /\ "daily_plans" \in DOMAIN arg.m
            /\ ~NonEmptyList(arg.m["daily_plans"])) => ret.status.error # "none"
        /\ (\E i \in 1..Len(PlansOf(arg)) : LacksActivities(PlansOf(arg)[i]))
               => ret.status.error # "none"
        /\ ret.status.error = "none" =>
               CompleteItinerary(arg) /\ CompleteItinerary(ret.itinerary)

\* a complete first day followed by a day without activities, rejected
C13_Witness ==
    /\ op = "_validate_itinerary"
    /\ Len(PlansOf(arg)) = 2
    /\ CompleteDay(PlansOf(arg)[1])
    /\ ObjectWith(PlansOf(arg)[2], required_day_keys)
    /\ PlansOf(arg)[2].m["activities"] = JList(<<>>)
    /\ ret.status = Raise("ValueError", "must have at least one activity")

---------------------------------------------------------------------------
(* Claims about the sanitizer                                              *)

\* the raw text has no '{' or no '}'
LacksBrace(text) == Find(Chars(text), "{") = 0 \/ Find(Chars(text), "}") = 0

\* C14: when the raw text has no '{' or no '}' the sanitizer fails and
\* hands no text to the parse step: json.loads is not called.
C14_NoJsonFoundStopsParse ==
    LacksBrace(response_text) =>
        /\ parse_pc \in {"start", "raised"}
        /\ \A i \in 1..Len(parse_calls) : ~IsLoadsCall(parse_calls[i])

\* Specification of the sanitizer: a text, the call, and the call again on
\* what the first call returned
CleanSamples == {"{\"a\":\"'b c'\"}", "{'t':'9h'}", "{\"a\":\"b c\"}"}

CleanTexts == ResponseTexts \cup CleanSamples

InitClean == arg \in CleanTexts /\ ret = "" /\ op = "init" /\ ApiIdle /\ ParseIdle /\ AppIdle

CallCleanJsonText ==
    /\ op = "init"
    /\ op' = "_clean_json_text"
    /\ ret' = CleanJsonText(arg)
    /\ arg' = arg
    /\ UNCHANGED <<appVars, apiVars, parseVars>>

\* the sanitizer called on its own result: arg is now that result
CallCleanJsonTextAgain ==
    /\ op = "_clean_json_text"
    /\ op' = "_clean_json_text again"
    /\ arg' = ret
    /\ ret' = CleanJsonText(ret)
    /\ UNCHANGED <<appVars, apiVars, parseVars>>

NextClean == CallCleanJsonText \/ CallCleanJsonTextAgain

SpecClean == InitClean /\ [][NextClean]_vars

\* C15: sanitizing is idempotent: the sanitizer called on a text it has
\* returned (and so on clean JSON text) returns that text unchanged.
C15_SanitizeIdempotent == op = "_clean_json_text again" => ret = arg

\* C16: a suggestions object with spaces in its strings, wrapped in code
\* fences with or without the json tag, is sanitized to the text of the
\* object without the fences and without the spaces inside its strings;
\* that text parses at the first attempt and passes the suggestions key
\* check.
C16_FencedObjectSanitizedAndParsed ==
    \A response \in FencedResponses :
        (response_text = response.text /\ parse_keys = suggestion_keys) =>
            /\ parse_pc # "start" => json_str = response.clean
            /\ parse_pc \in {"start", "cleaned", "loaded", "returned"}
            /\ parse_pc \in {"loaded", "returned"} => json_data = response.data
            /\ \A i \in 1..Len(parse_calls) : ~IsRepairCall(parse_calls[i])

\* the Louvre response in fences without a language tag, returned
C16_Witness ==
    /\ response_text = "^^^\n" \o SuggestionsText("The Louvre", "Famous museum",
                                                 "20 EUR", "3 hours") \o "\n^^^"
    /\ parse_keys = suggestion_keys
    /\ parse_pc = "returned"
    /\ json_str = SuggestionsText("TheLouvre", "Famousmuseum", "20EUR", "3hours")
    /\ json_data = Suggestions(<<Attraction("TheLouvre")>>, <<>>, <<>>)

---------------------------------------------------------------------------
(* Claims about truncated responses                                        *)

\* C17: the response truncated to {"attractions":[ is repaired into valid
\* JSON with an empty attractions list and parses; what fails then is the
\* key check, naming restaurants and activities, not json.loads.
C17_TruncatedListGivesSchemaError ==
    (response_text = "{\"attractions\":[" /\ parse_keys = suggestion_keys) =>
        /\ parse_pc = "repaired" =>
              JsonLoads(json_str) = JDict([attractions |-> JList(<<>>)])
        /\ parse_pc = "raised" =>
              /\ parse_calls[Len(parse_calls)].ok
              /\ ValidateJsonStructure(JsonLoads(json_str), parse_keys).missing
                     = <<"restaurants", "activities">>

\* C18: a response that is a JSON object short of some of its final
\* closing braces fails the first json.loads, is repaired to the complete
\* text and parses at the second json.loads to the object the complete
\* text stands for.
C18_MissingFinalBracesRepaired ==
    \A response \in BraceTruncations :
        response_text = response.text =>
            /\ parse_pc \notin {"start", "cleaned"} =>
                  IsLoadsCall(parse_calls[1]) /\ ~parse_calls[1].ok
            /\ parse_pc \notin {"start", "cleaned", "load failed"} =>
                  /\ IsRepairCall(parse_calls[2])
                  /\ json_str = response.complete
            /\ parse_pc = "loaded" =>
                  /\ Len(parse_calls) = 3
                  /\ IsLoadsCall(parse_calls[3]) /\ parse_calls[3].ok
                  /\ json_data = JsonLoads(response.complete)
                  /\ json_data # JInvalid
            \* what ends the call after the retry is the key check alone
            /\ parse_pc = "raised" =>
                  ValidateJsonStructure(JsonLoads(response.complete),
                                        parse_keys).error # "none"

---------------------------------------------------------------------------
(* Claims about the mock structures                                        *)

\* every element of the list under key is an object with name,
\* description, cost and the field of its kind
CompletePlaces(suggestions, key, field) ==
    /\ key \in DOMAIN suggestions.m
    /\ NonEmptyList(suggestions.m[key])
    /\ \A i \in 1..Len(suggestions.m[key].items) :
          ObjectWith(suggestions.m[key].items[i],
                     <<"name", "description", "cost", field>>)

CompleteSuggestions(suggestions) ==
    /\ suggestions.t = "dict"
    /\ CompletePlaces(suggestions, "attractions", "time_needed")
    /\ CompletePlaces(suggestions, "restaurants", "cuisine")
    /\ CompletePlaces(suggestions, "activities", "time_needed")

\* the call got no text from the model: it was in mock mode at entry or
\* the model call failed
GotNoText(response) == response.kind # "text"

\* C19: the mock structures are fixed and valid: a call that returns
\* without a text of the model, in mock mode or falling back, returns the
\* one mock itinerary, which the itinerary validator accepts and leaves
\* unchanged, or the one mock suggestions, which have the three lists with
\* name, description, cost and time_needed or cuisine in every entry.
C19_MocksFixedAndValid ==
    /\ (/\ call.op = "generate_itinerary"
        /\ call.outcome = "returned"
        /\ GotNoText(call.itinerary_response)) =>
           /\ call.value = MockItinerary
           /\ ValidateItinerary(call.value)
                  = [status |-> NoError, itinerary |-> call.value]
    /\ (/\ call.op = "generate_suggestions"
        /\ call.outcome = "returned"
        /\ GotNoText(call.suggestions_response)) =>
           /\ call.value = MockSuggestions
           /\ CompleteSuggestions(call.value)
           /\ ValidateJsonStructure(call.value, suggestion_keys) = NoError

\* generate_itinerary in mock mode has returned the mock itinerary
C19_Witness ==
    /\ call.op = "generate_itinerary"
    /\ call.entry_mock
    /\ call.outcome = "returned"
    /\ call.itinerary_response = NotAsked
    /\ call.value = MockItinerary
    /\ Len(PlansOf(call.value)) = 1
    /\ ActivityTypes(call.value) = {"activity", "meal"}

---------------------------------------------------------------------------
(* Claims about empty responses                                            *)

\* C20: an empty text of the model is a failure of the model call, and the
\* call it happens in returns the mock structure: generate_suggestions,
\* also when generate_itinerary calls it, the mock suggestions, and
\* generate_itinerary, for an empty answer to its own prompt, the mock
\* itinerary.
C20_EmptyTextGivesMock ==
    /\ (call.op = "generate_suggestions" /\ call.suggestions_response = EmptyText)
           => call.outcome = "returned" /\ call.value = MockSuggestions
    /\ (call.op = "generate_itinerary" /\ call.suggestions_response = EmptyText)
           => context.generated_suggestions = MockSuggestions
    /\ (call.op = "generate_itinerary" /\ call.itinerary_response = EmptyText)
           => call.outcome = "returned" /\ call.value = MockItinerary

---------------------------------------------------------------------------
(* Independence of the calls on a GeminiAPI object                         *)

\* what the caller of generate_suggestions or generate_itinerary gets
Result(done) == <<done.outcome, done.value, done.error>>

\* what a generate_suggestions call answered with response gives on the
\* object whose state is mock and ctx
SuggestionsResult(mock, ctx, response) ==
    Result(SuggestionsCall(mock, ctx.generated_suggestions, response))

ItineraryResult(mock, ctx, suggestions_response, itinerary_response) ==
    Result(ItineraryCall(mock, ctx, suggestions_response, itinerary_response))

\* C21: the calls on a GeminiAPI object are independent: no call leaves
\* state behind that changes the result of a later call, so the result of
\* a call depends only on the model's answers in that call
C21_CallsIndependent ==
    [][/\ \A response \in SuggestionResponses :
              SuggestionsResult(use_mock', context', response)
                  = SuggestionsResult(use_mock, context, response)
       /\ \A suggestions_response \in {QuotaError, Text(GoodSuggestions)},
             itinerary_response \in ItineraryResponses :
              ItineraryResult(use_mock', context', suggestions_response,
                              itinerary_response)
                  = ItineraryResult(use_mock, context, suggestions_response,
                                    itinerary_response)]_vars

---------------------------------------------------------------------------
(* Calendar dates: datetime.strptime(s, '%Y-%m-%d'), strftime('%Y-%m-%d'), *)
(* the difference of two dates in days and a date plus a number of days    *)
(* (src/app/utils/weather.py, lines 32-34, 40-42 and 125-127, 133, 160)    *)

IsLeap(y) == y % 4 = 0 /\ (y % 100 # 0 \/ y % 400 = 0)

DaysInMonth(y, m) ==
    IF m = 2 THEN (IF IsLeap(y) THEN 29 ELSE 28)
    ELSE IF m \in {4, 6, 9, 11} THEN 30 ELSE 31

NoDate == [ok |-> FALSE, y |-> 0, m |-> 0, d |-> 0]

Date(y, m, d) == [ok |-> TRUE, y |-> y, m |-> m, d |-> d]

\* the directives %m and %d take one or two digits
DateDigits(cs) == cs # <<>> /\ Len(cs) <= 2 /\ AllIn(cs, Digits)

MonthField(cs) == DateDigits(cs) /\ IntOf(cs) \in 1..12

\* %d also takes a space and a digit
DayField(cs) ==
    \/ DateDigits(cs) /\ IntOf(cs) \in 1..31
    \/ Len(cs) = 2 /\ cs[1] = " " /\ cs[2] \in Digits \ {"0"}

DayOf(cs) == IF cs[1] = " " THEN IntOf(Tail(cs)) ELSE IntOf(cs)

\* the date of the fields, or the ValueError of a year 0 or of a day the
\* month does not have
DateOf(y, m, d) ==
    IF y < 1 \/ d > DaysInMonth(y, m) THEN NoDate ELSE Date(y, m, d)

\* the text from its second dash at position p on
MonthAndDay(cs, p) ==
    IF Len(cs) <= p \/ cs[p] # "-" \/ ~MonthField(SubSeq(cs, 6, p - 1))
       \/ ~DayField(SubSeq(cs, p + 1, Len(cs)))
    THEN NoDate
    ELSE DateOf(IntOf(SubSeq(cs, 1, 4)), IntOf(SubSeq(cs, 6, p - 1)),
                DayOf(SubSeq(cs, p + 1, Len(cs))))

\* datetime.strptime(s, '%Y-%m-%d') of the characters cs: the date, or
\* NoDate where it raises ValueError
Strptime(cs) ==
    IF Len(cs) < 8 \/ ~AllIn(SubSeq(cs, 1, 4), Digits) \/ cs[5] # "-"
    THEN NoDate
    ELSE MonthAndDay(cs, IF cs[7] = "-" THEN 7 ELSE 8)

\* strftime('%Y-%m-%d'), for the years of four digits
Strftime(date) ==
    Str(<<DigitChar(date.y \div 1000), DigitChar((date.y \div 100) % 10),
          DigitChar((date.y \div 10) % 10), DigitChar(date.y % 10), "-">>
        \o Pad2(date.m) \o <<"-">> \o Pad2(date.d))

RECURSIVE DaysBeforeMonth(_, _)
DaysBeforeMonth(y, m) ==
    IF m <= 1 THEN 0 ELSE DaysBeforeMonth(y, m - 1) + DaysInMonth(y, m - 1)

\* date.toordinal(): the days from 0001-01-01, which is day 1
ToOrdinal(date) ==
    (date.y - 1) * 365 + (date.y - 1) \div 4 - (date.y - 1) \div 100
        + (date.y - 1) \div 400 + DaysBeforeMonth(date.y, date.m) + date.d

\* (end - start).days
DaysBetween(start, end) == ToOrdinal(end) - ToOrdinal(start)

\* date + timedelta(days=1): the next day, or NoDate where the sum raises
\* OverflowError, the year 9999 being the last one of datetime
NextDay(date) ==
    IF date.d < DaysInMonth(date.y, date.m) THEN Date(date.y, date.m, date.d + 1)
    ELSE IF date.m < 12 THEN Date(date.y, date.m + 1, 1)
    ELSE IF date.y < 9999 THEN Date(date.y + 1, 1, 1)
    ELSE NoDate

\* date + timedelta(days=n), for a sum within the years of datetime
RECURSIVE AddDays(_, _)
AddDays(date, n) == IF n <= 0 THEN date ELSE AddDays(NextDay(date), n - 1)

---------------------------------------------------------------------------
(* WeatherAPI (src/app/utils/weather.py).  A forecast is the sequence of   *)
(* its daily entries; of an entry the model keeps the date and where the   *)
(* entry comes from, the figures drawn by random or averaged from the      *)
(* service's data being read by nothing else in the program.               *)

\* WeatherAPI.__init__: no session yet.  session is self.session, closed
\* tells whether the ClientSession it refers to has been closed, and open
\* counts the ClientSession objects the object has created and not closed
NewWeatherAPI == [session |-> "None", closed |-> FALSE, open |-> 0]

\* WeatherAPI._ensure_session on the object w
EnsureSession(w) ==
    IF w.session = "None"
    THEN [session |-> "ClientSession", closed |-> FALSE, open |-> w.open + 1]
    ELSE w

\* line 25: self.session.close(); closing a closed session changes nothing
SessionClosed(w) ==
    [w EXCEPT !.closed = TRUE, !.open = IF w.closed THEN @ ELSE @ - 1]

\* line 26
SessionDropped(w) == [w EXCEPT !.session = "None", !.closed = FALSE]

\* WeatherAPI.__aexit__ on the object w, run from line 24 to line 26
AExitOf(w) ==
    IF w.session # "None" THEN SessionDropped(SessionClosed(w)) ELSE w

MockEntry(date) == [date |-> Strftime(date), origin |-> "mock"]

\* mutant: the day of the end date gets no entry
MockEntries_WithoutEndDay(start, end) ==
    [i \in 1..DaysBetween(start, end) |-> MockEntry(AddDays(start, i - 1))]

\* lines 34-52, the two dates parsed
MockEntries(start, end) ==
    [i \in 1..(DaysBetween(start, end) + 1) |-> MockEntry(AddDays(start, i - 1))]

\* lines 32-33 and the except of line 54, the arguments being strings
MockForecastOf(start, end) ==
    IF ~start.ok \/ ~end.ok THEN <<>> ELSE MockEntries(start, end)

\* WeatherAPI._generate_mock_forecast; strptime raises TypeError for an
\* argument that is no string
GenerateMockForecast(start_date, end_date) ==
    IF start_date.t # "str" \/ end_date.t # "str" THEN <<>>
    ELSE MockForecastOf(Strptime(Chars(start_date.s)), Strptime(Chars(end_date.s)))

\* lines 136-139: the items of the day
DayData(items, date_str) ==
    SelectSeq(items, LAMBDA item : StartsWith(item.dt_txt, 1, date_str))

\* an item of the service's list that lacks a field the summary reads
Incomplete(items) == \E i \in 1..Len(items) : ~items[i].complete

Processed(error, value) == [error |-> error, value |-> value]

\* lines 141-158: the summaries so far with that of the day date, if the
\* service has data of the day
Summarized(items, date, done) ==
    IF DayData(items, Strftime(date)) = <<>> THEN done
    ELSE Append(done, [date |-> Strftime(date), origin |-> "forecast"])

\* lines 132-160 from the day date on, days days being left and done being
\* the summaries so far; line 160 steps to the next day after every day,
\* the last one too, and raises OverflowError on 9999-12-31
RECURSIVE ProcessDays(_, _, _, _)
ProcessDays(items, date, days, done) ==
    IF days <= 0 THEN Processed(FALSE, done)
    ELSE IF Incomplete(DayData(items, Strftime(date)))
    THEN Processed(TRUE, <<>>)
    ELSE IF ~NextDay(date).ok THEN Processed(TRUE, <<>>)
    ELSE ProcessDays(items, NextDay(date), days - 1, Summarized(items, date, done))

\* lines 125-162, the two dates parsed; forecast_data['list'] is read on
\* the first day
ProcessParsed(forecast_data, start, end) ==
    IF ~start.ok \/ ~end.ok THEN Processed(TRUE, <<>>)
    ELSE IF DaysBetween(start, end) + 1 <= 0 THEN Processed(FALSE, <<>>)
    ELSE IF forecast_data.t # "dict" THEN Processed(TRUE, <<>>)
    ELSE ProcessDays(forecast_data.list, start, DaysBetween(start, end) + 1, <<>>)

\* WeatherAPI._process_forecast: the daily summaries, or the exception
\* of line 165
ProcessForecast(forecast_data, start_date, end_date) ==
    IF start_date.t # "str" \/ end_date.t # "str" THEN Processed(TRUE, <<>>)
    ELSE ProcessParsed(forecast_data, Strptime(Chars(start_date.s)),
                       Strptime(Chars(end_date.s)))

\* get_forecast has returned value on the object w; failed tells that it
\* is the mock forecast, and error names the exception of line 74, whose
\* message line 76 shows
Forecast(w, failed, error, value) ==
    [weather |-> w, pc |-> "returned", outcome |-> "returned", failed |-> failed,
     error |-> error, value |-> value]

\* get_forecast is suspended in the await of line pc on the object w
Awaits(w, pc) ==
    [weather |-> w, pc |-> pc, outcome |-> "pending", failed |-> FALSE,
     error |-> "none", value |-> <<>>]

\* lines 74-77
MockFallback(w, start_date, end_date, error) ==
    Forecast(w, TRUE, error, GenerateMockForecast(start_date, end_date))

\* lines 72-77; processed is the outcome of _process_forecast
ForecastProcessed(w, start_date, end_date, processed) ==
    IF processed.error THEN MockFallback(w, start_date, end_date, "processing")
    ELSE Forecast(w, FALSE, "none", processed.value)

\* lines 82-90 and 105-114: the session is ensured and the request is
\* made on it; session.get raises on a closed session (RuntimeError, caught
\* at line 74), and on an open one the call is suspended in the request
Requested(w, start_date, end_date, pc) ==
    IF EnsureSession(w).closed
    THEN MockFallback(EnsureSession(w), start_date, end_date, "Session is closed")
    ELSE Awaits(EnsureSession(w), pc)

\* WeatherAPI.get_forecast on the object w, from its first line to its
\* first suspension, in the request of _get_coordinates, or to its return
GetForecastCall(w, destination, start_date, end_date) ==
    IF Falsy(destination) \/ Falsy(start_date) \/ Falsy(end_date)
    THEN Forecast(w, TRUE, "none", GenerateMockForecast(start_date, end_date))
    ELSE Requested(w, start_date, end_date, "line 90")

\* the call f resumed on the object w where it is suspended, to its next
\* suspension or to its return: in the two requests (lines 90 and 114) and
\* in the reading of their bodies (lines 92 and 116).  f.answer is what the
\* service has answered to the requests; lost tells that the request fails
\* because its session was closed under it.  The exceptions of the
\* requests are those of lines 99-100 and 118-119
ForecastResumed(w, f, lost) ==
    CASE f.pc = "line 90" ->
             IF f.answer.coordinates # "ok" \/ lost
             THEN MockFallback(w, f.start_date, f.end_date, "coordinates")
             ELSE Awaits(w, "line 92")
      [] f.pc = "line 92" ->
             IF lost THEN MockFallback(w, f.start_date, f.end_date, "coordinates")
             ELSE Requested(w, f.start_date, f.end_date, "line 114")
      [] f.pc = "line 114" ->
             IF f.answer.forecast.t = "error" \/ lost
             THEN MockFallback(w, f.start_date, f.end_date, "forecast data")
             ELSE Awaits(w, "line 116")
      [] f.pc = "line 116" ->
             IF lost THEN MockFallback(w, f.start_date, f.end_date, "forecast data")
             ELSE ForecastProcessed(w, f.start_date, f.end_date,
                                    ProcessForecast(f.answer.forecast, f.start_date,
                                                    f.end_date))

\* the service has not answered
NoAnswer == [coordinates |-> "not asked", forecast |-> [t |-> "not asked"]]

\* what the service answers to the request the call f is suspended in,
\* answers being what it answers to the two requests of a call: to the
\* first the coordinates or an error, to the second the forecast or an
\* error
Answers(f, answers) ==
    CASE f.pc = "line 90" -> {[a EXCEPT !.forecast = NoAnswer.forecast] : a \in answers}
      [] f.pc = "line 114" -> {a \in answers : a.coordinates = "ok"}
      [] OTHER -> {f.answer}

\* the call f, the service having answered
Asked(f, answer) == [f EXCEPT !.answer = answer]

\* the record of a get_forecast call: its arguments, what the service
\* has answered to it, where it stands and what it returned; cut tells that the
\* session of the request the call is suspended in has been closed
ForecastCall(destination, start_date, end_date, answer, cut, done) ==
    [op |-> "get_forecast", destination |-> destination,
     start_date |-> start_date, end_date |-> end_date, answer |-> answer,
     pc |-> done.pc, cut |-> cut, outcome |-> done.outcome,
     failed |-> done.failed, error |-> done.error, value |-> done.value]

\* the record of the call f after it was resumed; the body of a response
\* is read from the session of its request
ForecastCallResumed(f, done) ==
    ForecastCall(f.destination, f.start_date, f.end_date, f.answer,
                 f.cut /\ done.pc \in {"line 92", "line 116"}, done)

---------------------------------------------------------------------------
(* Specification of a WeatherAPI object: construction, then get_forecast   *)
(* calls and entries to and exits from its context, made by tasks of one   *)
(* event loop.  A step runs a task from one await that suspends it to the  *)
(* next: get_forecast is suspended in its two requests and in the reading  *)
(* of their bodies, __aexit__ in close().  One get_forecast call and one   *)
(* __aexit__ call are in flight at a time; the weather service answers in  *)
(* any of its ways.                                                        *)

MaxTripDays == 2      \* most days from the first day of a trip to its last

FirstDays == {Date(2024, 2, 28), Date(2024, 12, 30)}

\* trips that end on the last day of datetime
LastTrips ==
    {<<JStr("9999-12-30"), JStr("9999-12-31")>>,
     <<JStr("9999-12-31"), JStr("9999-12-31")>>}

TripDates(first) == {JStr(Strftime(AddDays(first, k))) : k \in 0..MaxTripDays}

\* arguments that are no date, or a date written another way
OddDates ==
    {JNull, JStr(""), JStr("2025-1-2"), JStr("2025-01- 3"), JStr("2025-02-30"),
     JStr("2025-13-01"), JStr("02/01/2025"), JStr("2025-01-01 ")}

\* the start dates and end dates of the calls
Trips ==
    UNION {TripDates(first) \X TripDates(first) : first \in FirstDays}
    \cup (OddDates \X {JStr("2025-01-04")})
    \cup ({JStr("2025-01-01")} \X OddDates)
    \cup {<<JNull, JNull>>}
    \cup LastTrips

\* the arguments of the calls
ForecastRequests ==
    {<<JStr("Paris"), trip[1], trip[2]>> : trip \in Trips}
    \cup {<<destination, JStr("2024-12-31"), end_date>> :
              destination \in {JStr(""), JNull},
              end_date \in {JStr("2025-01-01"), JStr("2025-02-30"), JNull}}

Item(dt_txt, complete) == [dt_txt |-> dt_txt, complete |-> complete]

ForecastData(items) == [t |-> "dict", list |-> items]

\* what the service answers to the forecast request: an error, a body
\* without the list, or the list
ForecastAnswers ==
    {[t |-> "error"], [t |-> "no list"], ForecastData(<<>>),
     ForecastData(<<Item("2024-02-28 09:00:00", TRUE), Item("2024-02-28 12:00:00", TRUE),
                    Item("2024-03-01 09:00:00", TRUE),
                    Item("9999-12-30 09:00:00", TRUE)>>),
     ForecastData(<<Item("2024-12-31 09:00:00", TRUE), Item("2025-01-01 09:00:00", FALSE),
                    Item("2025-01-02 09:00:00", TRUE)>>)}

\* the forecast is not requested when the coordinates are not obtained
WeatherAnswers ==
    {[coordinates |-> "error", forecast |-> [t |-> "not asked"]]}
    \cup {[coordinates |-> "ok", forecast |-> f] : f \in ForecastAnswers}

InitWeather ==
    /\ weather = NewWeatherAPI
    /\ forecast = NoForecast
    /\ exits = 0
    /\ ApiIdle /\ ParseIdle /\ FnIdle /\ InitIdle /\ SessionIdle

\* a get_forecast call is suspended
InFlight == forecast.op = "get_forecast" /\ forecast.pc # "returned"

\* WeatherAPI.get_forecast is called: the call runs to its first
\* suspension or, without a destination or a date or on a closed session,
\* to its return
GetForecast ==
    /\ ~InFlight
    /\ \E request \in ForecastRequests :
           /\ weather' = GetForecastCall(weather, request[1], request[2],
                                         request[3]).weather
           /\ forecast' = ForecastCall(request[1], request[2], request[3], NoAnswer,
                                       FALSE,
                                       GetForecastCall(weather, request[1],
                                                       request[2], request[3]))
    /\ UNCHANGED <<apiVars, parseVars, fnVars, init, exits, session, run>>

\* the event loop resumes the suspended call, the service having
\* answered its request: the call runs to its next suspension or to its
\* return
ForecastResumes ==
    /\ InFlight
    /\ \E lost \in (IF forecast.cut THEN BOOLEAN ELSE {FALSE}),
          answer \in Answers(forecast, WeatherAnswers) :
           /\ weather' = ForecastResumed(weather, Asked(forecast, answer), lost).weather
           /\ forecast' = ForecastCallResumed(
                              Asked(forecast, answer),
                              ForecastResumed(weather, Asked(forecast, answer), lost))
    /\ UNCHANGED <<apiVars, parseVars, fnVars, init, exits, session, run>>

\* WeatherAPI.__aenter__
AEnter ==
    /\ weather' = EnsureSession(weather)
    /\ UNCHANGED <<apiVars, parseVars, fnVars, init, forecast, exits, session, run>>

\* whether close() suspends: it may when it closes an open session
Suspensions ==
    IF weather.session # "None" /\ ~weather.closed THEN BOOLEAN ELSE {FALSE}

\* WeatherAPI.__aexit__ is called: lines 24-25, and line 26 as well when
\* close() does not suspend; a request in flight loses its session
AExit ==
    /\ exits = 0
    /\ \E suspends \in Suspensions :
           /\ weather' = IF suspends THEN SessionClosed(weather) ELSE AExitOf(weather)
           /\ exits' = IF suspends THEN exits + 1 ELSE exits
    /\ forecast' = IF InFlight /\ weather.session # "None" /\ ~weather.closed
                   THEN [forecast EXCEPT !.cut = TRUE] ELSE forecast
    /\ UNCHANGED <<apiVars, parseVars, fnVars, init, session, run>>

\* the event loop resumes an __aexit__ suspended in close(): line 26
AExitResumes ==
    /\ exits > 0
    /\ weather' = SessionDropped(weather)
    /\ exits' = exits - 1
    /\ UNCHANGED <<apiVars, parseVars, fnVars, init, forecast, session, run>>

NextWeather == GetForecast \/ ForecastResumes \/ AEnter \/ AExit \/ AExitResumes

SpecWeather == InitWeather /\ [][NextWeather]_vars

\* the call had no destination or no date, or a request or the processing
\* of the service's data failed
ForecastFailure(f) ==
    \/ Falsy(f.destination) \/ Falsy(f.start_date) \/ Falsy(f.end_date)
    \/ f.answer.coordinates # "ok"
    \/ f.answer.forecast.t \in {"error", "not asked"}
    \/ ProcessForecast(f.answer.forecast, f.start_date, f.end_date).error
    \/ f.failed

\* the two arguments are dates and the end is not before the start
ValidTrip(start_date, end_date) ==
    /\ start_date.t = "str" /\ end_date.t = "str"
    /\ Strptime(Chars(start_date.s)).ok /\ Strptime(Chars(end_date.s)).ok
    /\ ToOrdinal(Strptime(Chars(start_date.s)))
           <= ToOrdinal(Strptime(Chars(end_date.s)))

\* the entries are mock entries, one for each day from start_date through
\* end_date, in the order of the days
MockCoversTrip(value, start_date, end_date) ==
    /\ Len(value) = ToOrdinal(Strptime(Chars(end_date.s)))
                        - ToOrdinal(Strptime(Chars(start_date.s))) + 1
    /\ \A i \in 1..Len(value) :
           /\ Strptime(Chars(value[i].date)).ok
           /\ ToOrdinal(Strptime(Chars(value[i].date)))
                  = ToOrdinal(Strptime(Chars(start_date.s))) + i - 1

\* C22: get_forecast never raises; on a failure of geocoding, of the fetch
\* or of the processing, and without a destination or a date, it returns
\* the mock forecast, which for a start date and an end date not before it
\* has one entry for each calendar day from the start through the end, in
\* ascending order of the dates
C22_ForecastFallsBackToMockOfTheTrip ==
    forecast.op = "get_forecast" =>
        /\ forecast.outcome \in {"pending", "returned"}
        /\ forecast.outcome = "pending" <=> forecast.pc # "returned"
        /\ forecast.outcome = "returned" /\ ForecastFailure(forecast) =>
               /\ \A i \in 1..Len(forecast.value) : forecast.value[i].origin = "mock"
               /\ ValidTrip(forecast.start_date, forecast.end_date) =>
                      MockCoversTrip(forecast.value, forecast.start_date,
                                     forecast.end_date)

\* a service error on a trip from 28 February to 1 March of a leap year
C22_Witness ==
    /\ forecast.op = "get_forecast" /\ forecast.outcome = "returned"
    /\ forecast.answer.coordinates = "error"
    /\ forecast.start_date = JStr("2024-02-28")
    /\ forecast.end_date = JStr("2024-03-01")
    /\ Len(forecast.value) = 3
    /\ forecast.value[2].date = "2024-02-29"

---------------------------------------------------------------------------
(* Mock mode and the context of a GeminiAPI object over its calls          *)

\* the mock structure of the operation
MockOf(operation) ==
    IF operation = "generate_suggestions" THEN MockSuggestions ELSE MockItinerary

\* C24: mock mode is sticky: use_mock never changes from True to False,
\* and a call entered with use_mock True returns the mock structure of its
\* operation without asking the model
C24_MockModeSticky ==
    [][use_mock =>
           /\ use_mock'
           /\ call'.outcome = "returned"
           /\ call'.value = MockOf(call'.op)
           /\ call'.suggestions_response = NotAsked
           /\ call'.itinerary_response = NotAsked]_vars

\* a call in mock mode on an object that had parsed suggestions from the
\* model before, so that it entered mock mode by a failed call
C24_Witness ==
    /\ call.entry_mock /\ use_mock
    /\ call.op = "generate_itinerary"
    /\ call.value = MockItinerary
    /\ context.generated_suggestions \notin {JNull, MockSuggestions}

\* the itinerary the text of response gives when it parses and passes
\* _validate_itinerary, JNull otherwise
ValidatedItinerary(response) ==
    IF response.kind # "text" THEN JNull
    ELSE IF ParseJsonResponse(response.json, required_keys).status.error # "none"
    THEN JNull
    ELSE IF ValidateItinerary(ParseJsonResponse(response.json, required_keys).data)
                .status.error # "none"
    THEN JNull
    ELSE ValidateItinerary(ParseJsonResponse(response.json, required_keys).data)
             .itinerary

\* C26: context["final_itinerary"] only holds an itinerary parsed from a
\* response of the model that passed _validate_itinerary: it changes only
\* in a generate_itinerary call that returns such an itinerary, and so is
\* left unchanged by a failed call and by a call that returns the mock
C26_FinalItineraryOnlyValidated ==
    [][context'.final_itinerary # context.final_itinerary =>
           /\ call'.op = "generate_itinerary"
           /\ call'.outcome = "returned"
           /\ call'.value = context'.final_itinerary
           /\ context'.final_itinerary = ValidatedItinerary(call'.itinerary_response)
           /\ context'.final_itinerary # JNull]_vars

\* an itinerary was stored and a later call, its answer failing, returned
\* the mock itinerary
C26_Witness ==
    /\ context.final_itinerary # JNull
    /\ call.op = "generate_itinerary"
    /\ call.itinerary_response # NotAsked
    /\ call.value = MockItinerary
    /\ context.final_itinerary # MockItinerary

---------------------------------------------------------------------------
(* Specification of GeminiAPI.__init__ (lines 11-75), step by step, as     *)
(* the module main.py runs it (lines 157-169): the configuration, then     *)
(* one step for each turn of the loop over the model names, the library    *)
(* answering each test request in any of its ways.                         *)

model_names ==
    <<"models/gemini-1.5-pro-002", "models/gemini-1.5-pro",
      "models/gemini-1.5-pro-latest", "models/gemini-1.5-pro-001">>

\* what genai.configure does: it returns, or raises with or without the
\* word quota in its message
ConfigureOutcomes == {"ok", "quota error", "error"}

\* what a turn of the loop meets: GenerativeModel raises, generate_content
\* raises, there is no response, its text is empty, or there is a text
TestAnswers == {"no model", "error", "quota error", "no response", "empty text", "text"}

Event(e, name, answer) == [e |-> e, name |-> name, answer |-> answer]

\* lines 13-21: the object at line 23; use_mock is the argument
Constructing(next) ==
    [pc |-> "line 23", events |-> <<>>, model |-> "None", next |-> next]

InitConstruct ==
    /\ use_mock \in BOOLEAN
    /\ context = [generated_suggestions |-> JNull, final_itinerary |-> JNull]
    /\ call = NoCall
    /\ init = Constructing(1)
    /\ ParseIdle /\ FnIdle /\ WeatherIdle /\ SessionIdle

\* lines 23-26
ReturnMock ==
    /\ init.pc = "line 23" /\ use_mock
    /\ init' = [init EXCEPT !.pc = "returned"]
    /\ UNCHANGED <<use_mock, context, call, parseVars, fnVars, weather, forecast,
                   exits, session, run>>

\* line 29 and, when genai.configure raises, lines 69-75
Configure ==
    /\ init.pc = "line 23" /\ ~use_mock
    /\ \E outcome \in ConfigureOutcomes :
           /\ init' = [init EXCEPT
                          !.pc = CASE outcome = "ok" -> "line 44"
                                   [] outcome = "quota error" -> "returned"
                                   [] outcome = "error" -> "raised",
                          !.events = Append(@, Event("configure", "", outcome))]
           /\ use_mock' = (outcome = "quota error")
    /\ UNCHANGED <<context, call, parseVars, fnVars, weather, forecast, exits,
                   session, run>>

\* mutant: the first attempt is preceded by a pause too
Pauses_BeforeFirst(model_name) == TRUE

\* line 46
Pauses(model_name) == model_name # model_names[1]

\* lines 46-57 for the name model_name: the pause, then the attempt
Attempt(model_name, answer) ==
    (IF Pauses(model_name) THEN <<Event("sleep", "", "")>> ELSE <<>>)
        \o <<Event("try", model_name, answer)>>

\* lines 44-63: one turn of the loop
TryModel ==
    /\ init.pc = "line 44" /\ init.next <= Len(model_names)
    /\ \E answer \in TestAnswers :
           init' = [init EXCEPT
                       !.pc = IF answer = "text" THEN "returned" ELSE "line 44",
                       !.events = @ \o Attempt(model_names[init.next], answer),
                       !.model = IF answer = "no model" THEN @
                                 ELSE model_names[init.next],
                       !.next = @ + 1]
    /\ UNCHANGED <<use_mock, context, call, parseVars, fnVars, weather, forecast,
                   exits, session, run>>

\* lines 65-67: the loop ended without a return
AllFailed ==
    /\ init.pc = "line 44" /\ init.next > Len(model_names)
    /\ init' = [init EXCEPT !.pc = "returned"]
    /\ use_mock' = TRUE
    /\ UNCHANGED <<context, call, parseVars, fnVars, weather, forecast, exits,
                   session, run>>

\* main.py, lines 167-169: the construction raised and the module
\* constructs the object again with use_mock=True; the record keeps what
\* the first construction did
ConstructDemo ==
    /\ init.pc = "raised"
    /\ init' = [init EXCEPT !.pc = "line 23"]
    /\ use_mock' = TRUE
    /\ UNCHANGED <<context, call, parseVars, fnVars, weather, forecast, exits,
                   session, run>>

NextConstruct == ReturnMock \/ Configure \/ TryModel \/ AllFailed \/ ConstructDemo

SpecConstruct == InitConstruct /\ [][NextConstruct]_vars

\* the attempts among the events, in their order
Attempts(events) == SelectSeq(events, LAMBDA event : event.e = "try")

Succeeded(events) == \E k \in 1..Len(events) : events[k].answer = "text"

\* C27: the construction tries the model names in the order of their list,
\* pauses before every attempt but the first, stops at the first model
\* whose test request returns a non-empty text and tries no name after it;
\* when no name succeeds the object ends in mock mode, so that a completed
\* construction leaves an object in mock mode or one whose model passed
\* the test request
C27_ConstructionTriesInOrderThenMock ==
    /\ \A i \in 1..Len(Attempts(init.events)) :
           /\ i <= Len(model_names)
           /\ Attempts(init.events)[i].name = model_names[i]
           /\ Attempts(init.events)[i].answer = "text"
                  => i = Len(Attempts(init.events))
    /\ \A k \in 1..Len(init.events) :
           /\ init.events[k].e = "try" =>
                  ((k > 1 /\ init.events[k - 1].e = "sleep")
                       <=> init.events[k].name # model_names[1])
           /\ init.events[k].e = "sleep" =>
                  k < Len(init.events) /\ init.events[k + 1].e = "try"
           /\ init.events[k].answer = "text" =>
                  k = Len(init.events) /\ init.pc = "returned"
    /\ init.pc = "returned" =>
           \/ use_mock
           \/ /\ Succeeded(init.events)
              /\ init.model = init.events[Len(init.events)].name
    /\ (init.pc = "returned" /\ ~Succeeded(init.events)) => use_mock

\* the third name passed the test request after the first two failed
C27_Witness ==
    /\ init.pc = "returned" /\ ~use_mock
    /\ Len(Attempts(init.events)) = 3
    /\ init.model = model_names[3]
    /\ Len(SelectSeq(init.events, LAMBDA event : event.e = "sleep")) = 2

---------------------------------------------------------------------------
(* The wizard of src/app/main.py.  Streamlit runs the script from its      *)
(* first line at every action of the user, handing the action to the       *)
(* widget it comes from, and again at every st.rerun().  A run is given    *)
(* by the session state it starts with, the user's input, the st call at   *)
(* which Streamlit stops it, if it does, and what the services answer; it  *)
(* gives the session state it leaves, the widgets it drew and where it     *)
(* stands: at its end, by st.rerun() or not, stopped, or waiting for a     *)
(* call.                                                                   *)

\* main.py, lines 193-201
defaults ==
    [current_step |-> 0, travel_data |-> <<>>, itinerary |-> JNull,
     suggestions |-> JNull, suggestions_status |-> "pending",
     itinerary_status |-> "pending", error_message |-> JNull]

\* lines 203-205: the keys the session lacks are stored with their
\* defaults, the others are left as they are
Defaults(s) ==
    [var \in DOMAIN defaults \cup DOMAIN s |->
        IF var \in DOMAIN s THEN s[var] ELSE defaults[var]]

\* lines 114-129, run at the start of every run: a session without a
\* theme gets the light one
ThemeInitialized(s) == IF "theme" \in DOMAIN s THEN s ELSE [theme |-> "light"] @@ s

\* toggle_theme (lines 132-135)
toggle_theme(s) == [s EXCEPT !.theme = IF @ = "light" THEN "dark" ELSE "light"]

\* user_input.py, lines 169-175
required_fields == <<"destination", "start_date", "end_date", "budget", "interests">>

\* UserInputForm.validate_travel_data
ValidateTravelData(s) ==
    \A i \in 1..Len(required_fields) : required_fields[i] \in DOMAIN s.travel_data

\* dict.get(key)
Get(dict, key) == IF key \in DOMAIN dict THEN dict[key] ELSE JNull

\* dict.update(new)
Update(dict, new) == new @@ dict

\* user_input.py, lines 55-61: what the form of step 0 stores
BasicData(form) ==
    [destination |-> JStr(form.destination),
     start_date |-> JStr(Strftime(form.start_date)),
     end_date |-> JStr(Strftime(form.end_date)),
     duration |-> JInt(DaysBetween(form.start_date, form.end_date) + 1),
     budget |-> JStr(form.budget)]

\* user_input.py, lines 155-162: what the form of step 1 stores
PreferenceData(form) ==
    [interests |-> JList(form.interests),
     dietary_preferences |-> JList(<<JStr("No Restrictions")>>),
     accommodation_type |-> JStr("Mid-range Hotel"),
     mobility_concerns |-> JStr(""),
     preferred_pace |-> JInt(3), max_walking_time |-> JInt(4)]

\* the user's action, as the widget gives it to the run, and the line of
\* main.py at which Streamlit stops the run, 0 when it does not
Input(widget, step, form) == [widget |-> widget, step |-> step, form |-> form, stop |-> 0]

NoInput == Input("none", 0, <<>>)

\* the run of input, which Streamlit stops at line
StoppedAt(input, line) == [input EXCEPT !.stop = line]

\* the run ran to its end, by st.rerun() or by the end of the script
Ran(s, rerun, drawn) ==
    [session |-> s, rerun |-> rerun, drawn |-> drawn, pc |-> "done", stop |-> 0]

\* the run waits in async_to_sync for the call to return (lines 269, 342
\* and 347)
Waits(s, drawn, operation) ==
    [session |-> s, rerun |-> FALSE, drawn |-> drawn, pc |-> operation, stop |-> 0]

\* Streamlit stopped the run at the st call of line: the call raises an
\* exception that no 'except Exception' catches
Stopped(s, drawn, line) ==
    [session |-> s, rerun |-> FALSE, drawn |-> drawn, pc |-> "stopped",
     stop |-> line]

\* main.py, lines 392-395
StartOverButton(s, input, drawn) ==
    IF input.widget = "start over"
    THEN Ran(<<>>, TRUE, drawn \cup {"start over"})
    ELSE Ran(s, FALSE, drawn \cup {"start over"})

\* lines 400-404: main() raised an exception, which line 400 catches; the
\* message and the Restart Application button are drawn, and the button
\* is handled when the run is that of a click on it
Raised(s, input, drawn) ==
    IF input.widget = "restart"
    THEN Ran(<<>>, TRUE, drawn \cup {"restart"})
    ELSE Ran(s, FALSE, drawn \cup {"restart"})

\* lines 240-244 and UserInputForm.show_basic_details; api.form_raises
\* tells whether a widget of the form raises (user_input.py, lines 12-51),
\* which nothing catches before line 400
BasicDetails(s, input, drawn, api) ==
    IF api.form_raises THEN Raised(s, input, drawn)
    ELSE IF input.widget = "basic form"
    THEN Ran([s EXCEPT !.travel_data = Update(@, BasicData(input.form)),
                       !.current_step = @ + 1],
             TRUE, drawn \cup {"basic form"})
    ELSE StartOverButton(s, input, drawn \cup {"basic form"})

\* lines 246-250 and UserInputForm.show_preferences
Preferences(s, input, drawn) ==
    IF input.widget = "preferences form" /\ input.form.interests # <<>>
    THEN Ran([s EXCEPT !.travel_data = Update(@, PreferenceData(input.form)),
                       !.current_step = @ + 1],
             TRUE, drawn \cup {"preferences form"})
    ELSE StartOverButton(s, input, drawn \cup {"preferences form"})

\* str(e) of the exception a call raised, given by its class
Message(prefix, error) == JStr(prefix \o error)

\* lines 266-269: the status is written, then the run waits for
\* generate_suggestions
GetSuggestionsClicked(s, input, drawn) ==
    IF input.stop = 268
    THEN Stopped([s EXCEPT !.suggestions_status = "loading"], drawn, 268)
    ELSE Waits([s EXCEPT !.suggestions_status = "loading"], drawn,
               "generate_suggestions")

\* lines 272-282; done is the outcome of generate_suggestions
SuggestionsReturned(s, drawn, done, stop) ==
    IF done.outcome # "returned"
    THEN Ran([s EXCEPT !.suggestions_status = "error",
                       !.error_message =
                           Message("Failed to generate suggestions: ", done.error)],
             FALSE, drawn)
    ELSE IF stop = 274
    THEN Stopped([s EXCEPT !.suggestions = done.value, !.suggestions_status = "ready"],
                 drawn, 274)
    ELSE Ran([s EXCEPT !.suggestions = done.value, !.suggestions_status = "ready"],
             TRUE, drawn)

\* lines 336-342: the status is written, then the run waits for
\* generate_itinerary
GenerateClicked(s, input, drawn) ==
    IF input.stop = 338
    THEN Stopped([s EXCEPT !.itinerary_status = "loading"], drawn, 338)
    ELSE Waits([s EXCEPT !.itinerary_status = "loading"], drawn,
               "generate_itinerary")

\* mutant: a failed generation leaves the status at loading
GenerateFailed_LeavesLoading(s, input, drawn, done) ==
    StartOverButton(
        [s EXCEPT !.itinerary_status = "loading",
                  !.error_message =
                      Message("Failed to generate itinerary: ", done.error)],
        input, drawn)

\* lines 363-369 and 391-395; done is the outcome of generate_itinerary,
\* which raised
GenerateFailed(s, input, drawn, done) ==
    StartOverButton(
        [s EXCEPT !.itinerary_status = "error",
                  !.error_message =
                      Message("Failed to generate itinerary: ", done.error)],
        input, drawn)

\* lines 355-362; plan is what generate_itinerary returned and
\* weather_data what get_forecast returned
ForecastReturned(s, drawn, plan, weather_data, stop) ==
    IF stop = 360
    THEN Stopped([s EXCEPT !.itinerary =
                               JDict([plan |-> plan, weather |-> weather_data]),
                           !.itinerary_status = "ready"],
                 drawn, 360)
    ELSE Ran([s EXCEPT !.itinerary =
                           JDict([plan |-> plan, weather |-> weather_data]),
                       !.itinerary_status = "ready",
                       !.current_step = @ + 1],
             TRUE, drawn)

\* lines 347-353: get_forecast is called on the object w
AppForecast(s, w) ==
    GetForecastCall(w, Get(s.travel_data, "destination"),
                    Get(s.travel_data, "start_date"), Get(s.travel_data, "end_date"))

\* lines 292, 306, 320: st.session_state.suggestions.get(key, []) of a
\* value that is no dictionary raises AttributeError, and the for loop
\* over what it returns, the value of the key or [] without the key,
\* raises TypeError unless that is a list, a string or a dictionary: None,
\* a number and a boolean are not iterated
ShowRaises(suggestions) ==
    \/ suggestions.t # "dict"
    \/ \E i \in 1..Len(suggestion_keys) :
           /\ suggestion_keys[i] \in DOMAIN suggestions.m
           /\ suggestions.m[suggestion_keys[i]].t \notin {"list", "str", "dict"}

\* lines 285-342; an exception of the loops of lines 292, 306 and 320 is
\* caught at line 400 only
SuggestionsShown(s, input, drawn) ==
    IF s.suggestions_status = "ready" /\ ~Falsy(s.suggestions)
    THEN IF ShowRaises(s.suggestions) THEN Raised(s, input, drawn)
         ELSE IF input.widget = "generate itinerary" \/ s.itinerary_status = "loading"
         THEN GenerateClicked(s, input, drawn \cup {"generate itinerary"})
         ELSE StartOverButton(s, input, drawn \cup {"generate itinerary"})
    ELSE StartOverButton(s, input, drawn)

\* lines 252-342
GenerateStep(s, input, drawn) ==
    IF ~ValidateTravelData(s)
    THEN Ran([s EXCEPT !.current_step = 0], TRUE, drawn)
    ELSE IF input.widget = "get suggestions"
    THEN GetSuggestionsClicked(s, input, drawn \cup {"get suggestions"})
    ELSE SuggestionsShown(s, input, drawn \cup {"get suggestions"})

\* mutant: the final plan is shown without an itinerary
FinalPlan_WithoutItinerary(s, input, drawn, api) ==
    StartOverButton(s, input, drawn \cup {"itinerary view"})

\* lines 371-389; api.display_raises tells whether
\* ItineraryDisplay.show_itinerary raises
FinalPlan(s, input, drawn, api) ==
    IF Falsy(s.itinerary)
    THEN Ran([s EXCEPT !.current_step = 2], TRUE, drawn)
    ELSE IF ~api.display_raises
    THEN StartOverButton(s, input, drawn \cup {"itinerary view"})
    ELSE IF input.widget = "regenerate"
    THEN Ran([s EXCEPT !.current_step = 2], TRUE,
             drawn \cup {"itinerary view", "regenerate"})
    ELSE StartOverButton(s, input, drawn \cup {"itinerary view", "regenerate"})

\* lines 240-389: the content of the step
Content(s, input, drawn, api) ==
    CASE s.current_step = 0 -> BasicDetails(s, input, drawn, api)
      [] s.current_step = 1 -> Preferences(s, input, drawn)
      [] s.current_step = 2 -> GenerateStep(s, input, drawn)
      [] s.current_step = 3 -> FinalPlan(s, input, drawn, api)
      [] OTHER -> StartOverButton(s, input, drawn)

\* lines 223-225: the radio gives the step the user selected in this run,
\* or else the step it was drawn with
Radio(s, input) ==
    [s EXCEPT !.current_step = IF input.widget = "radio" THEN input.step ELSE @]

\* lines 217-220: the Toggle Theme button calls toggle_theme in the run of
\* a click on it
ThemeButton(s, input) ==
    IF input.widget = "toggle theme" THEN toggle_theme(s) ELSE s

\* lines 215-237: the sidebar and the progress bar; the run of a click on
\* Toggle Theme can be stopped at the st.markdown of toggle_theme (line
\* 138), the theme written
Sidebar(s, input, drawn, api) ==
    IF input.widget = "toggle theme" /\ input.stop = 138
    THEN Stopped(toggle_theme(s), drawn \cup {"toggle theme"}, 138)
    ELSE IF input.stop = 237
    THEN Stopped(Radio(ThemeButton(s, input), input),
                 drawn \cup {"toggle theme", "radio"}, 237)
    ELSE Content(Radio(ThemeButton(s, input), input), input,
                 drawn \cup {"toggle theme", "radio"}, api)

\* lines 208-212
ErrorShown(s, input, api) ==
    IF Falsy(s.error_message) THEN Sidebar(s, input, {}, api)
    ELSE IF input.widget = "clear error"
    THEN Ran([s EXCEPT !.error_message = JNull], TRUE, {"clear error"})
    ELSE Sidebar(s, input, {"clear error"}, api)

\* one run of the script, to its end or to the first call it waits for:
\* the lines of the module, then main()
ScriptRun(s, input, api) == ErrorShown(Defaults(ThemeInitialized(s)), input, api)

\* lines 114-225: what the content of the run is drawn from, the session
\* state after the radio at the keys the content reads
Selected(s, input) ==
    LET read == Radio(Defaults(ThemeInitialized(s)), input)
    IN  [current_step |-> read.current_step, travel_data |-> read.travel_data,
         suggestions |-> read.suggestions,
         suggestions_status |-> read.suggestions_status,
         itinerary |-> read.itinerary, itinerary_status |-> read.itinerary_status]

---------------------------------------------------------------------------
(* Specification of the application: the first run of the script, then     *)
(* the runs that the actions of the user and st.rerun() start.  A step is  *)
(* a run of the script up to the point where it returns, is stopped or     *)
(* waits: the script waits in async_to_sync, which runs the event loop     *)
(* until the call has returned (main.py, lines 22-29, 269, 342 and 347),   *)
(* and the steps that follow are the return of generate_suggestions, the   *)
(* return of generate_itinerary and the resumptions of get_forecast, each  *)
(* with the lines of the script that follow it.  A run that ended in       *)
(* st.rerun() is followed by the run it asked for; otherwise the user acts *)
(* on a widget the last run has drawn (the widgets that an earlier run     *)
(* left on the page are not modelled).  The user can act while a run is    *)
(* going on: Streamlit then stops the run at its next st call and starts   *)
(* the run of the action, the session state staying as the stopped run     *)
(* left it.  The Toggle Theme button of the sidebar writes the theme of    *)
(* the session and lets the run go on.  A widget of the form of step 0     *)
(* may raise, which nothing catches before line 400: the run then ends in  *)
(* the except branch, which draws the Restart Application button, and a    *)
(* click on that button is handled in a run that raises again.             *)
(* The script constructs gemini_api and weather_api anew in                *)
(* every run (main.py, lines 153-175), the GeminiAPI object in mock mode   *)
(* or not as the key of the process is configured (run.mock): the          *)
(* variables of the two objects hold the objects of the last run, and call *)
(* and forecast the calls that run made on them.  session is the session   *)
(* state and run what the last run has done so far.                        *)

BasicForms ==
    {[destination |-> destination, start_date |-> Date(2024, 12, 30),
      end_date |-> Date(2024, 12, 31), budget |-> "Moderate ($1000-$3000)"] :
         destination \in {"Paris", ""}}

PreferenceForms == {[interests |-> <<>>], [interests |-> <<JStr("Museums")>>]}

GoodItinerary == Itinerary(JList(<<Day(1, JList(<<GoodActivity>>))>>))

\* suggestions with the three keys and no list under the first, which
\* _validate_json_structure accepts
NullSuggestions ==
    JDict([attractions |-> JNull, restaurants |-> JList(<<>>),
           activities |-> JList(<<>>)])

\* what the model answers to Get Suggestions in the runs of the application
AppSuggestionResponses ==
    {QuotaError, TransportError, Text(GoodSuggestions), Text(NullSuggestions)}

\* what the model answers when generate_itinerary asks for the suggestions
\* again (gemini.py, line 199)
AppAskedAgainResponses == {QuotaError, TransportError, Text(GoodSuggestions)}

AppItineraryResponses == {QuotaError, Text(GoodItinerary)}

AppWeatherAnswers ==
    {[coordinates |-> "error", forecast |-> [t |-> "not asked"]],
     [coordinates |-> "ok",
      forecast |-> ForecastData(<<Item("2024-12-31 09:00:00", TRUE)>>)]}

\* the st calls of main.py a run is stopped at: those that follow a write
\* to the session state (st.markdown in toggle_theme after line 135, the
\* progress bar after line 225, the spinners after lines 266 and 336,
\* st.success after lines 273 and 359) and the spinner between the two
\* calls of Generate Itinerary; 0 stands for a run that is not stopped
StartStops == {0, 138, 237, 268, 338}

SuggestionsStops == {0, 274}

ItineraryStops == {0, 346, 360}

ForecastStops == {0, 360}

\* GeminiAPI.__init__, lines 16-21
NewContext == [generated_suggestions |-> JNull, final_itinerary |-> JNull]

\* what a run meets: the GeminiAPI object is constructed in mock mode or
\* not, ItineraryDisplay.show_itinerary raises or not, a widget of
\* UserInputForm.show_basic_details raises or not
Services(mock, display_raises, form_raises) ==
    [mock |-> mock, display_raises |-> display_raises, form_raises |-> form_raises]

\* the record of a call on the GeminiAPI object that has not returned
Pending(operation, s, mock) ==
    [op |-> operation, travel_data |-> s.travel_data, entry_mock |-> mock,
     entry_suggestions |-> JNull, suggestions_response |-> NotAsked,
     itinerary_response |-> NotAsked, outcome |-> "pending", value |-> JNull,
     error |-> "none"]

\* the state of the radio after a run: the index it was drawn with and
\* the step it returned; a run that ended before line 224 leaves it
RadioAfter(s, input, ran) ==
    IF "radio" \in ran.drawn
    THEN [index |-> Defaults(ThemeInitialized(s)).current_step,
          value |-> Selected(s, input).current_step]
    ELSE run.radio

\* the session state and the run after a step that left ran
Left(action, at, radio, ran) ==
    /\ session' = ran.session
    /\ run' = [action |-> action, at |-> at, drawn |-> ran.drawn,
               rerun |-> ran.rerun, radio |-> radio, pc |-> ran.pc,
               stop |-> ran.stop, mock |-> run.mock]

\* the state after the run that action started with input has run to its
\* end or to its first wait; the objects are those the run constructed
Acted(action, input, api, ran) ==
    /\ Left(action, Selected(session, input), RadioAfter(session, input, ran), ran)
    /\ use_mock' = api.mock
    /\ context' = NewContext
    /\ call' = IF ran.pc \in {"generate_suggestions", "generate_itinerary"}
               THEN Pending(ran.pc, ran.session, api.mock) ELSE NoCall
    /\ weather' = NewWeatherAPI
    /\ forecast' = NoForecast
    /\ UNCHANGED <<parseVars, fnVars, init, exits>>

\* a run of the script on the session state
Act(action, input, api) ==
    \E ran \in {ScriptRun(session, input, api)} : Acted(action, input, api, ran)

\* the run goes on after a wait and leaves ran
Continued(ran) == Left(run.action, run.at, run.radio, ran)

\* the run has drawn the widget and no run is going on or asked for
OnPage(widget) ==
    run.pc \in {"done", "stopped"} /\ ~run.rerun /\ widget \in run.drawn

\* the first run of the script, the session state being empty
FirstRun(mock) == ScriptRun(<<>>, NoInput, Services(mock, FALSE, FALSE))

InitApp ==
    /\ \E mock \in BOOLEAN :
           /\ use_mock = mock
           /\ session = FirstRun(mock).session
           /\ run = [action |-> "load", at |-> Selected(<<>>, NoInput),
                     drawn |-> FirstRun(mock).drawn, rerun |-> FirstRun(mock).rerun,
                     radio |-> [index |-> 0, value |-> 0], pc |-> "done",
                     stop |-> 0, mock |-> mock]
    /\ context = NewContext
    /\ call = NoCall
    /\ weather = NewWeatherAPI
    /\ forecast = NoForecast
    /\ exits = 0
    /\ ParseIdle /\ FnIdle /\ InitIdle

\* whether ItineraryDisplay.show_itinerary raises in a run that may come
\* to step: it is called at step 3 only
DisplayOutcomes(step) == IF step = 3 THEN BOOLEAN ELSE {FALSE}

\* whether UserInputForm.show_basic_details raises in a run that may come
\* to step: it is called at step 0 only
FormOutcomes(step) == IF step = 0 THEN BOOLEAN ELSE {FALSE}

\* what a run that may come to step meets
Meets(step) ==
    {Services(run.mock, display_raises, form_raises) :
         display_raises \in DisplayOutcomes(step), form_raises \in FormOutcomes(step)}

\* what the widgets give to a run that st.rerun() started: no action of
\* the user.  Streamlit keeps the value of a widget for as long as the
\* script draws it with the same parameters, so the radio, when it is
\* drawn with the index of the run before, may return the user's
\* selection of that run again instead of its index; both are allowed.
RerunInputs ==
    {NoInput} \cup
        IF /\ run.radio.value # run.radio.index
           /\ run.radio.index = Defaults(session).current_step
        THEN {Input("radio", run.radio.value, <<>>)}
        ELSE {}

\* the lines at which Streamlit can stop the run of input on the session
\* state: 0, and the lines of StartStops which the run comes to
Stops(input, api) ==
    {line \in StartStops :
         \/ line = 0
         \/ ScriptRun(session, StoppedAt(input, line), api).stop = line}

\* a run of the script that action starts with input, meeting one of apis
\* and stopped or not
Runs(action, input, apis) ==
    \E api \in apis :
        \E line \in Stops(input, api) : Act(action, StoppedAt(input, line), api)

\* the step of the session state as the next run reads it
Step == Defaults(session).current_step

\* st.rerun(): the script runs again from its first line
Rerun ==
    /\ run.rerun
    /\ \E input \in RerunInputs :
           Runs("rerun", input, Meets(Selected(session, input).current_step))

\* the user selects another step in the sidebar
SelectStep ==
    /\ OnPage("radio")
    /\ \E step \in 0..3 :
           /\ step # Step
           /\ Runs("radio", Input("radio", step, <<>>), Meets(step))

\* the user clicks Toggle Theme in the sidebar
ClickToggleTheme ==
    /\ OnPage("toggle theme")
    /\ Runs("toggle theme", Input("toggle theme", 0, <<>>), Meets(Step))

\* the user submits the form of step 0
SubmitBasicDetails ==
    /\ OnPage("basic form")
    /\ \E form \in BasicForms :
           Runs("basic form", Input("basic form", 0, form), Meets(Step))

\* the user submits the form of step 1
SubmitPreferences ==
    /\ OnPage("preferences form")
    /\ \E form \in PreferenceForms :
           Runs("preferences form", Input("preferences form", 0, form), Meets(Step))

\* the user clicks Get Suggestions: lines 185-269, the run coming to wait
\* for generate_suggestions
ClickGetSuggestions ==
    /\ OnPage("get suggestions")
    /\ Runs("get suggestions", Input("get suggestions", 0, <<>>), Meets(Step))

\* generate_suggestions returns to line 269: lines 272-282
SuggestionsReturn ==
    /\ run.pc = "generate_suggestions"
    /\ \E response \in AppSuggestionResponses, line \in SuggestionsStops :
           \E done \in {SuggestionsCall(use_mock, context.generated_suggestions,
                                         response)} :
               /\ Continued(SuggestionsReturned(session, run.drawn, done, line))
               /\ use_mock' = done.use_mock
               /\ context' = [context EXCEPT !.generated_suggestions =
                                                 done.generated_suggestions]
               /\ call' = [call EXCEPT !.suggestions_response = done.asked,
                                       !.outcome = done.outcome,
                                       !.value = done.value,
                                       !.error = done.error]
    /\ UNCHANGED <<parseVars, fnVars, init, weather, forecast, exits>>

\* the user clicks Generate Itinerary: lines 185-342, the run coming to
\* wait for generate_itinerary
ClickGenerateItinerary ==
    /\ OnPage("generate itinerary")
    /\ Runs("generate itinerary", Input("generate itinerary", 0, <<>>), Meets(Step))

\* the widget the action of the run came from
Clicked == Input(run.action, 0, <<>>)

\* lines 342-369 and 391-395 after generate_itinerary, whose outcome is
\* done: the except branch when it raised, and else the call of
\* get_forecast, which left begun, and lines 355-362 if it has returned
ItineraryReturned(s, input, drawn, done, begun, stop) ==
    IF done.outcome # "returned" THEN GenerateFailed(s, input, drawn, done)
    ELSE IF stop = 346 THEN Stopped(s, drawn, 346)
    ELSE IF begun.pc = "returned"
    THEN ForecastReturned(s, drawn, done.value, begun.value, stop)
    ELSE Waits(s, drawn, "get_forecast")

\* the record of the generate_itinerary call that left done
ItineraryRecord(done) ==
    [call EXCEPT !.suggestions_response = done.asked_suggestions,
                 !.itinerary_response = done.asked_itinerary,
                 !.outcome = done.outcome, !.value = done.value,
                 !.error = done.error]

\* the objects after generate_itinerary left done; get_forecast is called
\* when the run comes to line 347
ItineraryLeft(done, begun, asks) ==
    /\ use_mock' = done.use_mock
    /\ context' = done.context
    /\ call' = ItineraryRecord(done)
    /\ weather' = IF asks THEN begun.weather ELSE weather
    /\ forecast' = IF asks
                   THEN ForecastCall(Get(session.travel_data, "destination"),
                                     Get(session.travel_data, "start_date"),
                                     Get(session.travel_data, "end_date"),
                                     NoAnswer, FALSE, begun)
                   ELSE forecast

\* generate_itinerary returns to line 342: the except branch, or the call
\* of get_forecast, the run coming to wait for it
ItineraryReturn ==
    /\ run.pc = "generate_itinerary"
    /\ \E suggestions_response \in AppAskedAgainResponses,
          itinerary_response \in AppItineraryResponses, line \in ItineraryStops :
           \E done \in {ItineraryCall(use_mock, context, suggestions_response,
                                       itinerary_response)},
              begun \in {AppForecast(session, weather)} :
               /\ Continued(ItineraryReturned(session, Clicked, run.drawn, done,
                                              begun, line))
               /\ ItineraryLeft(done, begun,
                                done.outcome = "returned" /\ line # 346)
    /\ UNCHANGED <<parseVars, fnVars, init, exits>>

\* lines 347-362 after get_forecast was resumed and left resumed
ForecastAwaited(s, drawn, plan, resumed, stop) ==
    IF resumed.pc = "returned"
    THEN ForecastReturned(s, drawn, plan, resumed.value, stop)
    ELSE Waits(s, drawn, "get_forecast")

\* the event loop of line 347 resumes get_forecast, the service having
\* answered its request: the call runs to its next suspension or returns
\* to line 347, lines 355-362
ForecastReturn ==
    /\ run.pc = "get_forecast"
    /\ \E answer \in Answers(forecast, AppWeatherAnswers), line \in ForecastStops :
           \E resumed \in {ForecastResumed(weather, Asked(forecast, answer), FALSE)} :
               /\ Continued(ForecastAwaited(session, run.drawn, call.value, resumed,
                                            line))
               /\ weather' = resumed.weather
               /\ forecast' = ForecastCallResumed(Asked(forecast, answer), resumed)
    /\ UNCHANGED <<apiVars, parseVars, fnVars, init, exits>>

\* the user clicks Clear Error
ClickClearError ==
    /\ OnPage("clear error")
    /\ Runs("clear error", Input("clear error", 0, <<>>), Meets(Step))

\* the user clicks Regenerate Itinerary; the display raises again in the
\* run of the click, the button being drawn in its except branch
ClickRegenerate ==
    /\ OnPage("regenerate")
    /\ Runs("regenerate", Input("regenerate", 0, <<>>),
            {Services(run.mock, TRUE, FALSE)})

\* the user clicks Start Over
ClickStartOver ==
    /\ OnPage("start over")
    /\ Runs("start over", Input("start over", 0, <<>>), Meets(Step))

\* the user clicks Restart Application, which the except branch of line
\* 400 has drawn: the button is drawn again, and the click handled, when
\* main() raises again in the run of the click
ClickRestart ==
    /\ OnPage("restart")
    /\ Runs("restart", Input("restart", 0, <<>>), Meets(Step))

NextApp ==
    \/ Rerun
    \/ SelectStep \/ ClickToggleTheme \/ SubmitBasicDetails \/ SubmitPreferences
    \/ ClickGetSuggestions \/ SuggestionsReturn
    \/ ClickGenerateItinerary \/ ItineraryReturn \/ ForecastReturn
    \/ ClickClearError \/ ClickRegenerate \/ ClickStartOver \/ ClickRestart

SpecApp == InitApp /\ [][NextApp]_vars

---------------------------------------------------------------------------
(* The life of the session state (main.py, lines 193-205, 265-282,        *)
(* 334-368, 392-395 and 397-404).                                          *)

\* the run handled a click on Start Over: the button of line 393 was
\* drawn in the run of the click and returned True
StartOverRun == run.action = "start over" /\ "start over" \in run.drawn

\* the run handled a click on Restart Application (line 402)
RestartRun == run.action = "restart" /\ "restart" \in run.drawn

\* the run reset the session
ResetRun == StartOverRun \/ RestartRun

\* the run made the call operation and the call returned
CallReturned(operation) == call.op = operation /\ call.outcome = "returned"

\* the keys of the session that main() gives defaults to
Wizard(s) == [var \in DOMAIN defaults |-> s[var]]

\* C23: the run that handles Start Over leaves an empty session state and
\* asks for a rerun, and the run after it stores the defaults, the wizard
\* at step 0: no travel data, no suggestions, no itinerary and no error
\* message; in every step that is not a reset, the suggestions of the
\* session change only when generate_suggestions returns to the run of a
\* click on Get Suggestions, and the itinerary only when
\* generate_itinerary has returned and get_forecast returns to the run of
\* a click on Generate Itinerary, so that the runs of a step selection, of
\* a form, of Toggle Theme, of Clear Error and of Regenerate Itinerary and
\* the reruns leave both as they are
C23_SessionLifecycle ==
    [][/\ StartOverRun' => session' = <<>> /\ run'.rerun
       /\ StartOverRun =>
              /\ run'.action = "rerun"
              /\ Wizard(session') = defaults
              /\ session'.current_step = 0 /\ session'.travel_data = <<>>
              /\ session'.suggestions = JNull /\ session'.itinerary = JNull
              /\ session'.error_message = JNull
       /\ ~ResetRun' /\ Defaults(session').suggestions # Defaults(session).suggestions
              => /\ run.pc = "generate_suggestions"
                 /\ run'.action = "get suggestions"
                 /\ CallReturned("generate_suggestions")'
       /\ ~ResetRun' /\ Defaults(session').itinerary # Defaults(session).itinerary
              => /\ run.pc \in {"generate_itinerary", "get_forecast"}
                 /\ run'.action = "generate itinerary"
                 /\ CallReturned("generate_itinerary")'
      ]_vars

---------------------------------------------------------------------------
(* The suggestions the itinerary is built from (main.py, lines 153-175    *)
(* and 334-344; gemini.py, lines 199-202).                                 *)

\* the run called generate_itinerary, which it does only when the
\* suggestions of the session are ready and shown, and the call is over
ItineraryCallOver == call.op = "generate_itinerary" /\ call.outcome # "pending"

\* C25: in the run that generates the itinerary the model is not asked for
\* suggestions again, and the suggestions the itinerary prompt is built
\* from, those of the object's context, are the suggestions of the session
\* that were shown to the user
C25_ItineraryFromShownSuggestions ==
    ItineraryCallOver =>
        /\ call.suggestions_response = NotAsked
        /\ call.itinerary_response # NotAsked =>
               context.generated_suggestions = run.at.suggestions

---------------------------------------------------------------------------
(* The guards of the wizard (main.py, lines 223-260 and 371-389;           *)
(* user_input.py, lines 166-178).                                          *)

\* the run came to step 3 with no itinerary in the session
NoItineraryAtFinalPlan == run.at.current_step = 3 /\ Falsy(run.at.itinerary)

\* the run came to step 2 with a required field missing
IncompleteAtGenerateStep == run.at.current_step = 2 /\ ~ValidateTravelData(run.at)

\* the run came to the content of its step (line 240): it read the radio
\* and was not stopped before
CameToContent == "radio" \in run.drawn /\ run.stop # 237

\* the widgets of the sidebar above the content (lines 219 and 224)
SidebarWidgets == {"toggle theme", "radio"}

\* C28: in every run the step the content is chosen by and the step the
\* run leaves are within 0..3; the itinerary is displayed only in a run
\* whose session holds an itinerary, and a run that came to step 3 without
\* one draws no content, leaves step 2 and asks for a rerun; the widgets of
\* the generate step are drawn and the calls made only in a run whose
\* travel data holds destination, start_date, end_date, budget and
\* interests, and a run that came to step 2 without one of them draws
\* none of them, leaves step 0 and asks for a rerun
C28_NavigationGuards ==
    /\ run.at.current_step \in 0..3
    /\ Defaults(session).current_step \in 0..3
    /\ "itinerary view" \in run.drawn => ~Falsy(run.at.itinerary)
    /\ CameToContent /\ NoItineraryAtFinalPlan
           => /\ run.drawn \ {"clear error"} = SidebarWidgets
              /\ session.current_step = 2 /\ run.rerun
    /\ run.drawn \cap {"get suggestions", "generate itinerary"} # {}
           => run.at.current_step = 2 /\ ValidateTravelData(run.at)
    /\ call.op # "none" \/ forecast.op # "none"
           => run.at.current_step = 2 /\ ValidateTravelData(run.at)
    /\ CameToContent /\ IncompleteAtGenerateStep
           => /\ run.drawn \ {"clear error"} = SidebarWidgets
              /\ session.current_step = 0 /\ run.rerun

\* the user selected Final Plan with complete travel data and no
\* itinerary: the run leaves step 2 and asks for a rerun
C28_Witness ==
    /\ run.action = "radio" /\ CameToContent
    /\ NoItineraryAtFinalPlan /\ ValidateTravelData(run.at)
    /\ session.current_step = 2 /\ run.rerun

---------------------------------------------------------------------------
(* The order of the two generations in the session (main.py, lines        *)
(* 265-285 and 334-368).                                                   *)

\* the session state as the next run reads it
Stored == Defaults(session)

\* st.session_state.itinerary holds a plan and weather data
HoldsPlanAndWeather(itinerary) ==
    itinerary.t = "dict" /\ {"plan", "weather"} \subseteq DOMAIN itinerary.m

\* the run has come to its end: it was not stopped and waits for no call
Finished == run.pc = "done"

\* C29: the Generate Itinerary button is drawn, and generate_itinerary
\* called, only in a run whose session has suggestions_status 'ready' and
\* non-empty suggestions; a session that holds an itinerary holds
\* suggestions; suggestions_status 'ready' implies that the suggestions are
\* set, and itinerary_status 'ready' that the itinerary holds a plan and
\* weather data; and a run that called generate_suggestions or
\* generate_itinerary and has come to its end does not leave the status of
\* the call at 'loading'
C29_GenerationOrdering ==
    /\ "generate itinerary" \in run.drawn
           => run.at.suggestions_status = "ready" /\ ~Falsy(run.at.suggestions)
    /\ call.op = "generate_itinerary"
           => run.at.suggestions_status = "ready" /\ ~Falsy(run.at.suggestions)
    /\ Stored.itinerary # JNull => Stored.suggestions # JNull
    /\ Stored.suggestions_status = "ready" => Stored.suggestions # JNull
    /\ Stored.itinerary_status = "ready" => HoldsPlanAndWeather(Stored.itinerary)
    /\ Finished /\ call.op = "generate_suggestions"
           => Stored.suggestions_status # "loading"
    /\ Finished /\ call.op = "generate_itinerary"
           => Stored.itinerary_status # "loading"

\* Generate Itinerary has finished with an itinerary stored and the wizard
\* at step 3, after a run of it that was stopped between the two calls
\* and left the status at 'loading'
C29_Witness ==
    /\ Finished /\ call.op = "generate_itinerary"
    /\ run.action # "generate itinerary" /\ run.at.itinerary_status = "loading"
    /\ session.itinerary_status = "ready" /\ session.suggestions_status = "ready"
    /\ HoldsPlanAndWeather(session.itinerary)
    /\ session.itinerary.m.weather # <<>>
    /\ session.current_step = 3 /\ run.rerun

---------------------------------------------------------------------------
(* The client sessions of the WeatherAPI objects (weather.py, lines       *)
(* 12-26 and 57-77; main.py, lines 345-353).                               *)

\* the run asked for the forecast and get_forecast has returned
ForecastRequested == forecast.op = "get_forecast" /\ forecast.outcome = "returned"

\* C30: the WeatherAPI object of a run has at most one open client
\* session, and when the run has made its forecast request and the
\* request has returned, with the forecast or with the mock, the object is
\* left with no open session
C30_SessionsClosed ==
    /\ weather.open \in {0, 1}
    /\ ForecastRequested => weather.open = 0 /\ weather.session = "None"

====
